---- MODULE Spec2Model ----
(***************************************************************************)
(* A model of the GeometricAlgebraSandbox script pipeline:                 *)
(*   lexer.rs  -> parsing.rs -> the evaluator and statement driver of      *)
(*   App::update_code in main.rs, over the algebra of multivector.rs.      *)
(*                                                                         *)
(* Source text is a sequence of characters, each character a one-character *)
(* string.  An f32 is modelled as an exact decimal <<n, e>> standing for   *)
(* n * 10^(-e), kept normalised (e = 0, or n not divisible by 10); the     *)
(* rounding of f32 is not modelled.                                        *)
(***************************************************************************)
EXTENDS Integers, Sequences, FiniteSets, TLC

VARIABLES
    code,               \* App.code: the script text
    parameters,         \* App.parameters: sequence of [name, value]
    variables,          \* App.variables: the environment, name -> Multivector
    errors,             \* App.errors: sequence of error strings
    values_to_display,  \* App.values_to_display: sequence of [name, display_value]
    statements,         \* the result of parse(&self.code) in the last pass
    last_time           \* App.last_time: "None" until the first frame

vars == <<code, parameters, variables, errors, values_to_display, statements,
          last_time>>

(***************************************************************************)
(* Characters                                                              *)
(***************************************************************************)
AsciiLower == {"a", "b", "c", "d", "e", "f", "g", "h", "i", "j", "k", "l", "m",
               "n", "o", "p", "q", "r", "s", "t", "u", "v", "w", "x", "y", "z"}
AsciiUpper == {"A", "B", "C", "D", "E", "F", "G", "H", "I", "J", "K", "L", "M",
               "N", "O", "P", "Q", "R", "S", "T", "U", "V", "W", "X", "Y", "Z"}
AsciiDigit == {"0", "1", "2", "3", "4", "5", "6", "7", "8", "9"}
\* Characters outside ASCII that char::is_alphabetic / char::is_numeric accept.
OtherAlphabetic == {"é"}
OtherNumeric == {"²"}

is_alphabetic(c) == c \in AsciiLower \cup AsciiUpper \cup OtherAlphabetic
is_numeric(c) == c \in AsciiDigit \cup OtherNumeric
is_alphanumeric(c) == is_alphabetic(c) \/ is_numeric(c)
is_whitespace(c) == c \in {" ", "\n", "\t"}

\* The number of bytes of the UTF-8 encoding of a character.
len_utf8(c) == IF c \in OtherAlphabetic \cup OtherNumeric THEN 2 ELSE 1

RECURSIVE str_len(_)
\* str::len: the length of a text in bytes.
str_len(source) ==
    IF source = <<>> THEN 0 ELSE len_utf8(Head(source)) + str_len(Tail(source))

RECURSIVE Concat(_)
\* The characters of a slice as one string (the &str the token borrows).
Concat(chars) ==
    IF chars = <<>> THEN "" ELSE Head(chars) \o Concat(Tail(chars))

(***************************************************************************)
(* f32 as exact decimals                                                   *)
(***************************************************************************)
RECURSIVE DNorm(_)
DNorm(d) ==
    IF d[2] = 0 THEN d
    ELSE IF d[1] % 10 = 0 THEN DNorm(<<d[1] \div 10, d[2] - 1>>)
    ELSE d

RECURSIVE Pow10(_)
Pow10(k) == IF k = 0 THEN 1 ELSE 10 * Pow10(k - 1)

D(n) == <<n, 0>>
DZero == D(0)
DNeg(a) == <<0 - a[1], a[2]>>
DAdd(a, b) ==
    IF a[1] = 0 THEN b
    ELSE IF b[1] = 0 THEN a
    ELSE IF a[2] = b[2] THEN DNorm(<<a[1] + b[1], a[2]>>)
    ELSE IF a[2] < b[2] THEN DNorm(<<a[1] * Pow10(b[2] - a[2]) + b[1], b[2]>>)
    ELSE DNorm(<<a[1] + b[1] * Pow10(a[2] - b[2]), a[2]>>)
DSub(a, b) == DAdd(a, DNeg(b))
DMul(a, b) == DNorm(<<a[1] * b[1], a[2] + b[2]>>)

DigitValue(c) ==
    CASE c = "0" -> 0 [] c = "1" -> 1 [] c = "2" -> 2 [] c = "3" -> 3
      [] c = "4" -> 4 [] c = "5" -> 5 [] c = "6" -> 6 [] c = "7" -> 7
      [] c = "8" -> 8 [] c = "9" -> 9

RECURSIVE DigitsValue(_, _)
\* The value of a run of ASCII digits, most significant first.
DigitsValue(run, acc) ==
    IF run = <<>> THEN acc
    ELSE DigitsValue(Tail(run), 10 * acc + DigitValue(Head(run)))

\* <f32 as FromStr>::from_str on a run of characters that starts with a
\* numeric character and holds numeric characters and '.': the run is a
\* decimal literal iff all its digits are ASCII digits and it holds at most
\* one '.', which may be the last character ("1." is 1).
parse_f32(run) ==
    LET dots == {i \in 1..Len(run) : run[i] = "."}
        digits == SelectSeq(run, LAMBDA c : c # ".")
    IN IF \E i \in 1..Len(run) : run[i] \notin AsciiDigit \cup {"."}
       THEN [ok |-> FALSE, value |-> DZero]
       ELSE IF Cardinality(dots) > 1 THEN [ok |-> FALSE, value |-> DZero]
       ELSE IF dots = {} THEN [ok |-> TRUE, value |-> D(DigitsValue(run, 0))]
       ELSE LET dot == CHOOSE i \in dots : TRUE
            IN [ok |-> TRUE,
                value |-> DNorm(<<DigitsValue(digits, 0), Len(run) - dot>>)]

\* <f32 as Display>::fmt for the values the model reaches.
f32_to_string(d) ==
    LET neg == d[1] < 0
        m == IF neg THEN 0 - d[1] ELSE d[1]
        p == Pow10(d[2])
        int == m \div p
        frac == m % p
        fs == ToString(frac)
        pad == [i \in 1..(d[2] - Len(fs)) |-> "0"]
    IN (IF neg THEN "-" ELSE "") \o ToString(int)
       \o (IF d[2] = 0 THEN "" ELSE "." \o Concat(pad) \o fs)

(***************************************************************************)
(* lexer.rs                                                                *)
(***************************************************************************)
Location(position, line, column) ==
    [position |-> position, line |-> line, column |-> column]

\* <Location as Display>: "{line}:{column}"
location_to_string(location) ==
    ToString(location.line) \o ":" \o ToString(location.column)

\* Lexer::new.  chars models Peekable<CharIndices>: the index of the next
\* character and its byte offset.
Lexer_new(source) ==
    [source |-> source,
     chars |-> [index |-> 1, front_offset |-> 0],
     location |-> Location(0, 1, 1)]

NoChar == "<none>"

\* Lexer::peek_char
peek_char(self) ==
    IF self.chars.index > Len(self.source) THEN NoChar
    ELSE self.source[self.chars.index]

\* next_char with the column carried over a line break instead of reset.
next_char_keeping_column(self) ==
    IF self.chars.index > Len(self.source) THEN [c |-> NoChar, lexer |-> self]
    ELSE LET c == self.source[self.chars.index]
             chars == [index |-> self.chars.index + 1,
                       front_offset |-> self.chars.front_offset + len_utf8(c)]
             position == IF chars.index > Len(self.source)
                         THEN str_len(self.source)
                         ELSE chars.front_offset
         IN [c |-> c,
             lexer |-> [source |-> self.source,
                        chars |-> chars,
                        location |->
                            IF c = "\n"
                            THEN Location(position, self.location.line + 1,
                                          self.location.column + 1)
                            ELSE Location(position, self.location.line,
                                          self.location.column + 1)]]
\* Lexer::next_char: [c, lexer]
next_char(self) ==
    IF self.chars.index > Len(self.source) THEN [c |-> NoChar, lexer |-> self]
    ELSE LET c == self.source[self.chars.index]
             chars == [index |-> self.chars.index + 1,
                       front_offset |-> self.chars.front_offset + len_utf8(c)]
             position == IF chars.index > Len(self.source)
                         THEN str_len(self.source)
                         ELSE chars.front_offset
         IN [c |-> c,
             lexer |-> [source |-> self.source,
                        chars |-> chars,
                        location |->
                            IF c = "\n"
                            THEN Location(position, self.location.line + 1, 1)
                            ELSE Location(position, self.location.line,
                                          self.location.column + 1)]]

Symbols == {"(", ")", ";", "+", "-", "*", "/", "^", "|", "&", "!", "~", "="}

SymbolKind(c) ==
    CASE c = "(" -> "OpenParenthesis"
      [] c = ")" -> "CloseParenthesis"
      [] c = ";" -> "Semicolon"
      [] c = "+" -> "Plus"
      [] c = "-" -> "Minus"
      [] c = "*" -> "Asterisk"
      [] c = "/" -> "Slash"
      [] c = "^" -> "Caret"
      [] c = "|" -> "Pipe"
      [] c = "&" -> "Ampersand"
      [] c = "!" -> "ExclamationMark"
      [] c = "~" -> "Tilde"
      [] c = "=" -> "Equal"

\* A match that does not know acos.
IdentifierKind_without_acos(text) ==
    CASE text = "normalize" -> "NormalizeKeyword"
      [] text = "magnitude" -> "MagnitudeKeyword"
      [] text = "sin" -> "SinKeyword"
      [] text = "cos" -> "CosKeyword"
      [] text = "asin" -> "ASinKeyword"
      [] OTHER -> "Name"

\* The match on the identifier's spelling.
IdentifierKind(text) ==
    CASE text = "normalize" -> "NormalizeKeyword"
      [] text = "magnitude" -> "MagnitudeKeyword"
      [] text = "sin" -> "SinKeyword"
      [] text = "cos" -> "CosKeyword"
      [] text = "asin" -> "ASinKeyword"
      [] text = "acos" -> "ACosKeyword"
      [] OTHER -> "Name"

Keywords == {"NormalizeKeyword", "MagnitudeKeyword", "SinKeyword", "CosKeyword",
             "ASinKeyword", "ACosKeyword"}

\* Token: location, kind, and the payload of Name (text) and Number (number).
Token(location, kind, text, number) ==
    [location |-> location, kind |-> kind, text |-> text, number |-> number]

NoToken == Token(Location(0, 0, 0), "<none>", "", DZero)
NoLexerError == [location |-> Location(0, 0, 0), kind |-> "<none>", char |-> ""]

\* <TokenKind as Display>
token_to_string(token) ==
    CASE token.kind = "Name" -> token.text
      [] token.kind = "NormalizeKeyword" -> "normalize"
      [] token.kind = "MagnitudeKeyword" -> "magnitude"
      [] token.kind = "SinKeyword" -> "sin"
      [] token.kind = "CosKeyword" -> "cos"
      [] token.kind = "ASinKeyword" -> "asin"
      [] token.kind = "ACosKeyword" -> "acos"
      [] token.kind = "Number" -> f32_to_string(token.number)
      [] token.kind = "OpenParenthesis" -> "("
      [] token.kind = "CloseParenthesis" -> ")"
      [] token.kind = "Semicolon" -> ";"
      [] token.kind = "Plus" -> "+"
      [] token.kind = "Minus" -> "-"
      [] token.kind = "Asterisk" -> "*"
      [] token.kind = "Slash" -> "/"
      [] token.kind = "Caret" -> "^"
      [] token.kind = "Pipe" -> "|"
      [] token.kind = "Ampersand" -> "&"
      [] token.kind = "ExclamationMark" -> "!"
      [] token.kind = "Tilde" -> "~"
      [] token.kind = "Equal" -> "="

RECURSIVE identifier_rest(_)
\* while let Some(c) = self.peek_char() && (c.is_alphanumeric() || c == '_')
identifier_rest(self) ==
    LET c == peek_char(self)
    IN IF c # NoChar /\ (is_alphanumeric(c) \/ c = "_")
       THEN identifier_rest(next_char(self).lexer)
       ELSE self

RECURSIVE number_rest(_)
\* while let Some(c) = self.peek_char() && (c.is_numeric() || c == '.')
number_rest(self) ==
    LET c == peek_char(self)
    IN IF c # NoChar /\ (is_numeric(c) \/ c = ".")
       THEN number_rest(next_char(self).lexer)
       ELSE self

\* &self.source[start..end], the byte offsets being those of the characters
\* at the two iterator positions.
source_slice(source, start_index, end_index) ==
    SubSeq(source, start_index, end_index - 1)

LexOk(token, lexer) ==
    [tag |-> "Ok", token |-> token, error |-> NoLexerError, lexer |-> lexer]
\* An end of input that is returned as one more token instead of None.
LexNone_as_token(lexer) ==
    LexOk(Token(lexer.location, "Semicolon", "", DZero), lexer)
LexNone(lexer) ==
    [tag |-> "None", token |-> NoToken, error |-> NoLexerError, lexer |-> lexer]
LexErr(error, lexer) ==
    [tag |-> "Err", token |-> NoToken, error |-> error, lexer |-> lexer]

\* The Name or keyword token of the identifier spelled text.
lex_identifier(start_location, text, end) ==
    LexOk(Token(start_location, IdentifierKind(text),
                IF IdentifierKind(text) = "Name" THEN text ELSE "", DZero),
          end)

\* A number arm that reports InvalidNumber where the run ends.
lex_number_located_at_end(start_location, value, end) ==
    IF value.ok
    THEN LexOk(Token(start_location, "Number", "", value.value), end)
    ELSE LexErr([location |-> end.location,
                 kind |-> "InvalidNumber", char |-> ""], end)
\* The Number token of the parsed run, or LexerErrorKind::InvalidNumber.
lex_number(start_location, value, end) ==
    IF value.ok
    THEN LexOk(Token(start_location, "Number", "", value.value), end)
    ELSE LexErr([location |-> start_location,
                 kind |-> "InvalidNumber", char |-> ""], end)

RECURSIVE next_token(_)
RECURSIVE next_token_match(_, _)

\* The match of Lexer::next_token on the character r.c read by next_char,
\* self being the lexer before that character.
next_token_match(self, r) ==
    IF r.c = NoChar THEN LexNone(r.lexer)
    ELSE IF r.c \in Symbols
    THEN LexOk(Token(self.location, SymbolKind(r.c), "", DZero), r.lexer)
    ELSE IF is_alphabetic(r.c) \/ r.c = "_"
    THEN lex_identifier(self.location,
             Concat(source_slice(self.source, self.chars.index,
                                 identifier_rest(r.lexer).chars.index)),
             identifier_rest(r.lexer))
    ELSE IF is_numeric(r.c)
    THEN lex_number(self.location,
             parse_f32(source_slice(self.source, self.chars.index,
                                    number_rest(r.lexer).chars.index)),
             number_rest(r.lexer))
    ELSE IF is_whitespace(r.c) THEN next_token(r.lexer)
    ELSE LexErr([location |-> self.location,
                 kind |-> "UnexpectedChar", char |-> r.c], r.lexer)

\* Lexer::next_token: Ok(Some(token)) | Ok(None) | Err(error), and the lexer
\* after the call.
next_token(self) == next_token_match(self, next_char(self))

\* A peek_token that scans on the lexer itself instead of a clone.
peek_token_consuming(self) == next_token(self)
\* Lexer::peek_token: next_token on a clone; the lexer itself is unchanged.
peek_token(self) == [next_token(self) EXCEPT !.lexer = self]

\* <LexerErrorKind as Display>
lexer_error_kind_to_string(kind, char) ==
    IF kind = "UnexpectedChar" THEN "Unexpected character '" \o char \o "'"
    ELSE "Invalid number"

(***************************************************************************)
(* parsing.rs                                                              *)
(***************************************************************************)
\* usize::MAX, the parent precedence a unary operand is parsed at.  TLC's
\* integers are 32 bits wide; the value only has to exceed every precedence.
usize_MAX == 2147483647

TokenKinds == {"Name", "Number", "OpenParenthesis", "CloseParenthesis",
               "Semicolon", "Plus", "Minus", "Asterisk", "Slash", "Caret",
               "Pipe", "Ampersand", "ExclamationMark", "Tilde", "Equal"}
              \cup Keywords

NoParseError ==
    [location |-> Location(0, 0, 0), kind |-> "<none>",
     lexer_kind |-> "", char |-> "", token |-> NoToken]

\* impl From<LexerError> for ParseError
ParseError_from(error) ==
    [location |-> error.location, kind |-> "LexerError",
     lexer_kind |-> error.kind, char |-> error.char, token |-> NoToken]

UnexpectedToken(token) ==
    [location |-> token.location, kind |-> "UnexpectedToken",
     lexer_kind |-> "", char |-> "", token |-> token]

UnexpectedEOI(location) ==
    [location |-> location, kind |-> "UnexpectedEOI",
     lexer_kind |-> "", char |-> "", token |-> NoToken]

\* <ParseError as Display>: "{location}: {kind}"
parse_error_to_string(error) ==
    location_to_string(error.location) \o ": " \o
    (CASE error.kind = "LexerError" ->
              lexer_error_kind_to_string(error.lexer_kind, error.char)
       [] error.kind = "UnexpectedEOI" -> "Unexpected end of input"
       [] error.kind = "UnexpectedToken" ->
              "Unexpected token '" \o token_to_string(error.token) \o "'")

POk(value, parser) ==
    [tag |-> "Ok", value |-> value, error |-> NoParseError, parser |-> parser]
PErr(error, parser) ==
    [tag |-> "Err", value |-> NoToken, error |-> error, parser |-> parser]

\* Parser::new
Parser_new(source) == [lexer |-> Lexer_new(source)]

\* expect_token!(parser, pattern): pattern is the set of token kinds it
\* matches (TokenKinds for the pattern _).
expect_token_match(r, pattern) ==
    IF r.tag = "Ok"
    THEN IF r.token.kind \in pattern
         THEN POk(r.token, [lexer |-> r.lexer])
         ELSE PErr(UnexpectedToken(r.token), [lexer |-> r.lexer])
    ELSE IF r.tag = "None"
    THEN PErr(UnexpectedEOI(r.lexer.location), [lexer |-> r.lexer])
    ELSE PErr(ParseError_from(r.error), [lexer |-> r.lexer])

\* expect_token! on a lexer that reads one token ahead: an error in the
\* token after the one asked for is raised first.
expect_token_reading_ahead(parser, pattern) ==
    IF /\ next_token(parser.lexer).tag = "Ok"
       /\ next_token(next_token(parser.lexer).lexer).tag = "Err"
    THEN PErr(ParseError_from(next_token(next_token(parser.lexer).lexer).error),
              [lexer |-> next_token(parser.lexer).lexer])
    ELSE expect_token_match(next_token(parser.lexer), pattern)
expect_token(parser, pattern) ==
    expect_token_match(next_token(parser.lexer), pattern)

UnaryOperatorOf(kind) ==
    CASE kind = "Minus" -> "Negate"
      [] kind = "ExclamationMark" -> "Dual"
      [] kind = "Tilde" -> "Reverse"
      [] OTHER -> "<none>"

\* A precedence table with one level.
BinaryPrecedenceOf_one_level(kind) ==
    IF kind \in {"Plus", "Minus", "Asterisk", "Slash", "Caret", "Pipe",
                 "Ampersand"}
    THEN 1 ELSE 0

\* The (precedence, _) of the match in the loop of parse_binary_expression.
BinaryPrecedenceOf(kind) ==
    CASE kind = "Plus" -> 1
      [] kind = "Minus" -> 1
      [] kind = "Asterisk" -> 2
      [] kind = "Slash" -> 2
      [] kind = "Caret" -> 2
      [] kind = "Pipe" -> 2
      [] kind = "Ampersand" -> 2
      [] OTHER -> 0

BinaryOperatorOf(kind) ==
    CASE kind = "Plus" -> "Add"
      [] kind = "Minus" -> "Subtract"
      [] kind = "Asterisk" -> "Multiply"
      [] kind = "Slash" -> "Divide"
      [] kind = "Caret" -> "Wedge"
      [] kind = "Pipe" -> "Inner"
      [] kind = "Ampersand" -> "Regressive"
      [] OTHER -> "<none>"

AstName(name_token) ==
    [location |-> name_token.location, kind |-> "Name",
     name |-> name_token.text, name_token |-> name_token]
AstNumber(number_token) ==
    [location |-> number_token.location, kind |-> "Number",
     number |-> number_token.number, number_token |-> number_token]
AstUnary(operator, operator_token, operand) ==
    [location |-> operator_token.location, kind |-> "Unary",
     operator |-> operator, operator_token |-> operator_token,
     operand |-> operand]
AstBinary(left, operator, operator_token, right) ==
    [location |-> operator_token.location, kind |-> "Binary",
     left |-> left, operator |-> operator,
     operator_token |-> operator_token, right |-> right]

RECURSIVE parse_expression(_)
RECURSIVE parse_primary_match(_)
RECURSIVE parse_primary_expression(_)
RECURSIVE parse_binary_right(_, _, _, _, _)
RECURSIVE parse_binary_operator(_, _, _, _, _)
RECURSIVE parse_binary_peeked(_, _, _, _)
RECURSIVE parse_binary_loop(_, _, _)
RECURSIVE parse_unary(_, _)
RECURSIVE parse_binary_left(_, _)
RECURSIVE parse_binary_head(_, _, _)
RECURSIVE parse_binary_expression(_, _)

\* Parser::parse_expression
parse_expression(self) == parse_binary_expression(self, 0)

\* The results below are handed from one step of a function to the next as
\* an operator argument: r? is "IF r.tag = "Err" THEN r ELSE ...".

\* The group closed by whatever token follows its expression: the token is
\* taken without being matched against ')'.
parse_primary_close_unmatched(expression, close) ==
    IF close.tag = "Err" /\ close.error.kind # "UnexpectedToken" THEN close
    ELSE POk(expression.value, close.parser)
\* expect_token!(self, TokenKind::CloseParenthesis)?; expression
parse_primary_close(expression, close) ==
    IF close.tag = "Err" THEN close
    ELSE POk(expression.value, close.parser)

\* let expression = self.parse_expression()?;
parse_primary_parenthesized(expression) ==
    IF expression.tag = "Err" THEN expression
    ELSE parse_primary_close(expression,
             expect_token(expression.parser, {"CloseParenthesis"}))

\* The match of Parser::parse_primary_expression on the token t.
parse_primary_match(t) ==
    IF t.tag = "Err" THEN t
    ELSE IF t.value.kind = "Name" THEN POk(AstName(t.value), t.parser)
    ELSE IF t.value.kind = "Number" THEN POk(AstNumber(t.value), t.parser)
    ELSE IF t.value.kind = "OpenParenthesis"
    THEN parse_primary_parenthesized(parse_expression(t.parser))
    ELSE PErr(UnexpectedToken(t.value), t.parser)

\* Parser::parse_primary_expression
parse_primary_expression(self) ==
    parse_primary_match(expect_token(self, TokenKinds))

\* The Binary node built from the right operand, and the next round of the
\* loop.
parse_binary_right(parent_precedence, left, operator, operator_token, right) ==
    IF right.tag = "Err" THEN right
    ELSE parse_binary_loop(right.parser, parent_precedence,
                           AstBinary(left, operator, operator_token,
                                     right.value))

\* let operator_token = expect_token!(self, _)?;
\* let right = self.parse_binary_expression(precedence)?;
parse_binary_operator(parent_precedence, left, operator, precedence, operator_token) ==
    IF operator_token.tag = "Err" THEN operator_token
    ELSE parse_binary_right(parent_precedence, left, operator,
             operator_token.value,
             parse_binary_expression(operator_token.parser, precedence))

\* A round of the loop that breaks on precedence < parent_precedence.
parse_binary_peeked_right(self, parent_precedence, left, peek) ==
    IF peek.tag = "Err" THEN PErr(ParseError_from(peek.error), self)
    ELSE IF peek.tag = "None" THEN POk(left, self)
    ELSE IF BinaryOperatorOf(peek.token.kind) = "<none>" THEN POk(left, self)
    ELSE IF BinaryPrecedenceOf(peek.token.kind) < parent_precedence
    THEN POk(left, self)
    ELSE parse_binary_operator(parent_precedence, left,
             BinaryOperatorOf(peek.token.kind),
             BinaryPrecedenceOf(peek.token.kind),
             expect_token(self, TokenKinds))

\* One round of the loop, peek being self.lexer.peek_token().
parse_binary_peeked(self, parent_precedence, left, peek) ==
    IF peek.tag = "Err" THEN PErr(ParseError_from(peek.error), self)
    ELSE IF peek.tag = "None" THEN POk(left, self)
    ELSE IF BinaryOperatorOf(peek.token.kind) = "<none>" THEN POk(left, self)
    ELSE IF BinaryPrecedenceOf(peek.token.kind) <= parent_precedence
    THEN POk(left, self)
    ELSE parse_binary_operator(parent_precedence, left,
             BinaryOperatorOf(peek.token.kind),
             BinaryPrecedenceOf(peek.token.kind),
             expect_token(self, TokenKinds))

\* The loop of Parser::parse_binary_expression, left being the operand
\* parsed so far.
parse_binary_loop(self, parent_precedence, left) ==
    parse_binary_peeked(self, parent_precedence, left, peek_token(self.lexer))

\* The Unary node built from the operand.
parse_unary_operand(operator, operator_token, operand) ==
    IF operand.tag = "Err" THEN operand
    ELSE POk(AstUnary(operator, operator_token, operand.value),
             operand.parser)

\* A unary operand parsed at the parent precedence 0.
parse_unary_at_zero(operator, operator_token) ==
    IF operator_token.tag = "Err" THEN operator_token
    ELSE parse_unary_operand(operator, operator_token.value,
             parse_binary_expression(operator_token.parser, 0))

\* let operator_token = expect_token!(self, _)?;
\* let operand = self.parse_binary_expression(usize::MAX)?;
parse_unary(operator, operator_token) ==
    IF operator_token.tag = "Err" THEN operator_token
    ELSE parse_unary_operand(operator, operator_token.value,
             parse_binary_expression(operator_token.parser, usize_MAX))

\* let mut left = ...; then the loop
parse_binary_left(parent_precedence, left) ==
    IF left.tag = "Err" THEN left
    ELSE parse_binary_loop(left.parser, parent_precedence, left.value)

\* The head of Parser::parse_binary_expression, peek being
\* self.lexer.peek_token().
parse_binary_head(self, parent_precedence, peek) ==
    IF peek.tag = "Err" THEN PErr(ParseError_from(peek.error), self)
    ELSE IF peek.tag = "Ok" /\ UnaryOperatorOf(peek.token.kind) # "<none>"
    THEN parse_binary_left(parent_precedence,
             parse_unary(UnaryOperatorOf(peek.token.kind),
                         expect_token(self, TokenKinds)))
    ELSE parse_binary_left(parent_precedence, parse_primary_expression(self))

\* Parser::parse_binary_expression
parse_binary_expression(self, parent_precedence) ==
    parse_binary_head(self, parent_precedence, peek_token(self.lexer))

\* expect_token!(self, TokenKind::Semicolon)?; Ok(AstStatement { .. })
parse_statement_end(name_token, equals_token, value, semicolon) ==
    IF semicolon.tag = "Err" THEN semicolon
    ELSE POk([location |-> equals_token.location,
              kind |-> "Assignment",
              name |-> name_token.text,
              name_token |-> name_token,
              equals_token |-> equals_token,
              value |-> value.value],
             semicolon.parser)

\* let value = self.parse_expression()?;
parse_statement_value(name_token, equals_token, value) ==
    IF value.tag = "Err" THEN value
    ELSE parse_statement_end(name_token, equals_token, value,
             expect_token(value.parser, {"Semicolon"}))

\* let equals_token = expect_token!(self, TokenKind::Equal)?;
parse_statement_equals(name_token, equals_token) ==
    IF equals_token.tag = "Err" THEN equals_token
    ELSE parse_statement_value(name_token, equals_token.value,
             parse_expression(equals_token.parser))

\* let (name_token, name) = expect_token!(self, TokenKind::Name(name), name)?;
parse_statement_name(name_token) ==
    IF name_token.tag = "Err" THEN name_token
    ELSE parse_statement_equals(name_token.value,
             expect_token(name_token.parser, {"Equal"}))

\* Parser::parse_statement
parse_statement(self) == parse_statement_name(expect_token(self, {"Name"}))

RECURSIVE parse_push(_, _)
RECURSIVE parse_peeked(_, _, _)
RECURSIVE parse_loop(_, _)

\* A push that keeps the statements parsed before a failed one.
parse_push_recovering(stmts, statement) ==
    IF statement.tag = "Err"
    THEN [tag |-> "Ok", statements |-> stmts, error |-> NoParseError]
    ELSE parse_loop(statement.parser, Append(stmts, statement.value))

\* statements.push(parser.parse_statement()?)
parse_push(stmts, statement) ==
    IF statement.tag = "Err"
    THEN [tag |-> "Err", statements |-> <<>>, error |-> statement.error]
    ELSE parse_loop(statement.parser, Append(stmts, statement.value))

\* One round of the loop of parse, peek being parser.lexer.peek_token().
parse_peeked(parser, stmts, peek) ==
    IF peek.tag = "Err"
    THEN [tag |-> "Err", statements |-> <<>>,
          error |-> ParseError_from(peek.error)]
    ELSE IF peek.tag = "None"
    THEN [tag |-> "Ok", statements |-> stmts, error |-> NoParseError]
    ELSE parse_push(stmts, parse_statement(parser))

\* while parser.lexer.peek_token()?.is_some() { statements.push(...?) }
parse_loop(parser, stmts) ==
    parse_peeked(parser, stmts, peek_token(parser.lexer))

\* parse: Ok(statements) | Err(error)
parse(source) == parse_loop(Parser_new(source), <<>>)

(***************************************************************************)
(* multivector.rs                                                          *)
(***************************************************************************)
Multivector(s, e0, e1, e2, e01, e02, e12, e012) ==
    [s |-> s, e0 |-> e0, e1 |-> e1, e2 |-> e2,
     e01 |-> e01, e02 |-> e02, e12 |-> e12, e012 |-> e012]

\* Multivector::ZERO
ZERO == Multivector(DZero, DZero, DZero, DZero, DZero, DZero, DZero, DZero)

grade0(self) == [ZERO EXCEPT !.s = self.s]
grade1(self) == [ZERO EXCEPT !.e0 = self.e0, !.e1 = self.e1, !.e2 = self.e2]
grade2(self) == [ZERO EXCEPT !.e01 = self.e01, !.e02 = self.e02,
                             !.e12 = self.e12]
grade3(self) == [ZERO EXCEPT !.e012 = self.e012]

\* Multivector::grade
grade(self, g) ==
    CASE g = 0 -> grade0(self)
      [] g = 1 -> grade1(self)
      [] g = 2 -> grade2(self)
      [] g = 3 -> grade3(self)
      [] OTHER -> ZERO

\* derive(Add), derive(Sub), derive(Neg): component by component
MvAdd(a, b) ==
    Multivector(DAdd(a.s, b.s), DAdd(a.e0, b.e0), DAdd(a.e1, b.e1),
                DAdd(a.e2, b.e2), DAdd(a.e01, b.e01), DAdd(a.e02, b.e02),
                DAdd(a.e12, b.e12), DAdd(a.e012, b.e012))
MvSub(a, b) ==
    Multivector(DSub(a.s, b.s), DSub(a.e0, b.e0), DSub(a.e1, b.e1),
                DSub(a.e2, b.e2), DSub(a.e01, b.e01), DSub(a.e02, b.e02),
                DSub(a.e12, b.e12), DSub(a.e012, b.e012))
MvNeg(a) ==
    Multivector(DNeg(a.s), DNeg(a.e0), DNeg(a.e1), DNeg(a.e2),
                DNeg(a.e01), DNeg(a.e02), DNeg(a.e12), DNeg(a.e012))

Sum4(a, b, c, d) == DAdd(DAdd(DAdd(a, b), c), d)
Sum8(a, b, c, d, e, f, g, h) ==
    DAdd(DAdd(DAdd(DAdd(DAdd(DAdd(DAdd(a, b), c), d), e), f), g), h)

\* A geometric product in which e12 squares to +1: the term -x14*x6 of the
\* scalar component has its sign flipped.
MvMul_e12_squares_to_one(self, other) ==
    LET x0 == self.s      x1 == self.e0     x2 == self.e1     x3 == self.e2
        x4 == self.e01    x5 == self.e02    x6 == self.e12    x7 == self.e012
        x8 == other.s     x9 == other.e0    x10 == other.e1   x11 == other.e2
        x12 == other.e01  x13 == other.e02  x14 == other.e12  x15 == other.e012
    IN Multivector(
        Sum4(DMul(x0, x8), DMul(x10, x2), DMul(x11, x3), DMul(x14, x6)),
        Sum8(DMul(x0, x9), DMul(x1, x8), DNeg(DMul(x12, x2)),
             DNeg(DMul(x13, x3)), DMul(x10, x4), DMul(x11, x5),
             DNeg(DMul(x15, x6)), DNeg(DMul(x14, x7))),
        Sum4(DMul(x0, x10), DMul(x2, x8), DNeg(DMul(x14, x3)), DMul(x11, x6)),
        Sum4(DMul(x0, x11), DMul(x14, x2), DMul(x3, x8), DNeg(DMul(x10, x6))),
        Sum8(DMul(x0, x12), DMul(x1, x10), DNeg(DMul(x2, x9)),
             DMul(x15, x3), DMul(x4, x8), DNeg(DMul(x14, x5)),
             DMul(x13, x6), DMul(x11, x7)),
        Sum8(DMul(x0, x13), DMul(x1, x11), DNeg(DMul(x15, x2)),
             DNeg(DMul(x3, x9)), DMul(x14, x4), DMul(x5, x8),
             DNeg(DMul(x12, x6)), DNeg(DMul(x10, x7))),
        Sum4(DMul(x0, x14), DMul(x11, x2), DNeg(DMul(x10, x3)), DMul(x6, x8)),
        Sum8(DMul(x0, x15), DMul(x1, x14), DNeg(DMul(x13, x2)),
             DMul(x12, x3), DMul(x11, x4), DNeg(DMul(x10, x5)),
             DMul(x6, x9), DMul(x7, x8)))
\* impl Mul<Multivector> for Multivector: the geometric product
MvMul(self, other) ==
    LET x0 == self.s      x1 == self.e0     x2 == self.e1     x3 == self.e2
        x4 == self.e01    x5 == self.e02    x6 == self.e12    x7 == self.e012
        x8 == other.s     x9 == other.e0    x10 == other.e1   x11 == other.e2
        x12 == other.e01  x13 == other.e02  x14 == other.e12  x15 == other.e012
    IN Multivector(
        Sum4(DMul(x0, x8), DMul(x10, x2), DMul(x11, x3), DNeg(DMul(x14, x6))),
        Sum8(DMul(x0, x9), DMul(x1, x8), DNeg(DMul(x12, x2)),
             DNeg(DMul(x13, x3)), DMul(x10, x4), DMul(x11, x5),
             DNeg(DMul(x15, x6)), DNeg(DMul(x14, x7))),
        Sum4(DMul(x0, x10), DMul(x2, x8), DNeg(DMul(x14, x3)), DMul(x11, x6)),
        Sum4(DMul(x0, x11), DMul(x14, x2), DMul(x3, x8), DNeg(DMul(x10, x6))),
        Sum8(DMul(x0, x12), DMul(x1, x10), DNeg(DMul(x2, x9)),
             DMul(x15, x3), DMul(x4, x8), DNeg(DMul(x14, x5)),
             DMul(x13, x6), DMul(x11, x7)),
        Sum8(DMul(x0, x13), DMul(x1, x11), DNeg(DMul(x15, x2)),
             DNeg(DMul(x3, x9)), DMul(x14, x4), DMul(x5, x8),
             DNeg(DMul(x12, x6)), DNeg(DMul(x10, x7))),
        Sum4(DMul(x0, x14), DMul(x11, x2), DNeg(DMul(x10, x3)), DMul(x6, x8)),
        Sum8(DMul(x0, x15), DMul(x1, x14), DNeg(DMul(x13, x2)),
             DMul(x12, x3), DMul(x11, x4), DNeg(DMul(x10, x5)),
             DMul(x6, x9), DMul(x7, x8)))

\* The (j, k) pairs of "for j in 0..=3 { for k in 0..=3 {" in loop order.
GradePairs ==
    [i \in 1..16 |-> <<(i - 1) \div 4, (i - 1) % 4>>]

abs_diff(j, k) == IF j >= k THEN j - k ELSE k - j

RECURSIVE wedge_loop_lowering(_, _, _, _)
\* The wedge loop keeping the grade-|j-k| part of each product, as inner does.
wedge_loop_lowering(self, other, i, result) ==
    IF i > Len(GradePairs) THEN result
    ELSE LET j == GradePairs[i][1]
             k == GradePairs[i][2]
         IN wedge_loop_lowering(self, other, i + 1,
                MvAdd(result,
                      grade(MvMul(grade(self, j), grade(other, k)),
                            abs_diff(j, k))))
RECURSIVE wedge_loop(_, _, _, _)
wedge_loop(self, other, i, result) ==
    IF i > Len(GradePairs) THEN result
    ELSE LET j == GradePairs[i][1]
             k == GradePairs[i][2]
         IN wedge_loop(self, other, i + 1,
                MvAdd(result,
                      grade(MvMul(grade(self, j), grade(other, k)), j + k)))

\* A wedge that keeps every grade of the product.
wedge_all_grades(self, other) == MvMul(self, other)
\* Multivector::wedge
wedge(self, other) == wedge_loop(self, other, 1, ZERO)

RECURSIVE inner_loop_raising(_, _, _, _)
\* The inner loop keeping the grade-(j+k) part of each product, as wedge does.
inner_loop_raising(self, other, i, result) ==
    IF i > Len(GradePairs) THEN result
    ELSE LET j == GradePairs[i][1]
             k == GradePairs[i][2]
         IN inner_loop_raising(self, other, i + 1,
                MvAdd(result,
                      grade(MvMul(grade(self, j), grade(other, k)), j + k)))
RECURSIVE inner_loop(_, _, _, _)
inner_loop(self, other, i, result) ==
    IF i > Len(GradePairs) THEN result
    ELSE LET j == GradePairs[i][1]
             k == GradePairs[i][2]
         IN inner_loop(self, other, i + 1,
                MvAdd(result,
                      grade(MvMul(grade(self, j), grade(other, k)),
                            abs_diff(j, k))))

\* Multivector::inner
inner(self, other) == inner_loop(self, other, 1, ZERO)

\* Multivector::reverse
reverse(self) ==
    Multivector(self.s, self.e0, self.e1, self.e2,
                DNeg(self.e01), DNeg(self.e02), DNeg(self.e12),
                DNeg(self.e012))

\* A dual that exchanges e1 with e02 and e2 with e01 under the same sign:
\* the minus is on the second pair instead of the first.
dual_signs_exchanged(self) ==
    Multivector(self.e012, self.e12, self.e02, DNeg(self.e01),
                DNeg(self.e2), self.e1, self.e0, self.s)
\* Multivector::dual
dual(self) ==
    Multivector(self.e012, self.e12, DNeg(self.e02), self.e01,
                self.e2, DNeg(self.e1), self.e0, self.s)

\* A dual_inverse that undoes the exchange of the components but not the
\* signs dual puts on e1 and e02.
dual_inverse_unsigned(self) ==
    Multivector(self.e012, self.e12, self.e02, self.e01,
                self.e2, self.e1, self.e0, self.s)
\* Multivector::dual_inverse
dual_inverse(self) ==
    Multivector(self.e012, self.e12, DNeg(self.e02), self.e01,
                self.e2, DNeg(self.e1), self.e0, self.s)

\* A regressive product that leaves out the final dual_inverse.
regressive_without_dual_inverse(self, other) == wedge(dual(self), dual(other))
\* Multivector::regressive
regressive(self, other) == dual_inverse(wedge(dual(self), dual(other)))

Scalar(n) == [ZERO EXCEPT !.s = n]

\* impl Mul<f32> for Multivector: every component times other
MvMulF32(self, other) ==
    Multivector(DMul(self.s, other), DMul(self.e0, other),
                DMul(self.e1, other), DMul(self.e2, other),
                DMul(self.e01, other), DMul(self.e02, other),
                DMul(self.e12, other), DMul(self.e012, other))

\* f32 comparison >=
DGe(a, b) == DSub(a, b)[1] >= 0

RECURSIVE ISqrt(_, _, _)
\* The largest r in lo..hi with r * r <= n, by bisection (lo * lo <= n).
ISqrt(n, lo, hi) ==
    IF lo >= hi THEN lo
    ELSE IF ((lo + hi + 1) \div 2) * ((lo + hi + 1) \div 2) <= n
         THEN ISqrt(n, (lo + hi + 1) \div 2, hi)
         ELSE ISqrt(n, lo, ((lo + hi + 1) \div 2) - 1)

\* The root of the decimal m * 10^-e with e even: exact when m is a square
\* (the case of every magnitude the specifications below reach), and cut
\* off at the digits of the decimal otherwise.
sqrt_even(m, e) == DNorm(<<ISqrt(m, 0, IF m < 46340 THEN m ELSE 46340), e \div 2>>)

\* f32::sqrt
f32_sqrt(d) ==
    IF d[2] % 2 = 0 THEN sqrt_even(d[1], d[2])
    ELSE sqrt_even(10 * d[1], d[2] + 1)

\* 10^k / m as a decimal with k - e places.
recip_places(m, e, k) ==
    IF k >= e THEN DNorm(<<Pow10(k) \div m, k - e>>)
    ELSE <<(Pow10(k) \div m) * Pow10(e - k), 0>>

RECURSIVE recip_search(_, _, _)
\* 1 / (m * 10^-e) = 10^e / m: exact when m divides a power of ten up to
\* 10^6 (the case of every magnitude the specifications below reach), and
\* cut off after six more digits otherwise.
recip_search(m, e, k) ==
    IF Pow10(k) % m = 0 \/ k = 6 THEN recip_places(m, e, k)
    ELSE recip_search(m, e, k + 1)

\* f32::recip, of a positive number
f32_recip(d) == recip_search(d[1], d[2], 0)

\* impl Div<f32> for Multivector
MvDivF32(self, other) == MvMulF32(self, f32_recip(other))

\* The scalar part of the square self * self, the reverse left out: the
\* e12 component is counted with a minus sign.
sqr_magnitude_of_square(self) == MvMul(self, self).s
\* Multivector::sqr_magnitude
sqr_magnitude(self) == MvMul(self, reverse(self)).s

\* Multivector::magnitude
magnitude(self) == f32_sqrt(sqr_magnitude(self))

\* The branch of normalised on the magnitude: 0.0001 is <<1, 4>>.
normalised_by(self, mag) ==
    IF DGe(mag, <<1, 4>>) THEN MvDivF32(self, mag) ELSE self

\* A normalised that divides whatever the magnitude is, unless it is zero.
normalised_without_threshold(self) ==
    IF magnitude(self) = DZero THEN self
    ELSE MvDivF32(self, magnitude(self))

\* Multivector::normalised
normalised(self) == normalised_by(self, magnitude(self))

(***************************************************************************)
(* main.rs: the evaluator and the statement driver of App::update_code     *)
(***************************************************************************)
EvalOk(value) == [tag |-> "Ok", value |-> value, error |-> ""]
EvalErr(error) == [tag |-> "Err", value |-> ZERO, error |-> error]

\* A division that yields its left operand instead of failing.
evaluate_divide_implemented(left, right, operator_token) == EvalOk(left)

\* What the Divide arm of evaluate_value returns.
evaluate_divide(left, right, operator_token) ==
    EvalErr(location_to_string(operator_token.location)
            \o ": Divide unimplemented")

\* A lookup that yields zero for an unknown name instead of failing.
evaluate_name_defaulting(expression, env) ==
    IF expression.name \in DOMAIN env
    THEN EvalOk(env[expression.name])
    ELSE EvalOk(ZERO)

\* What the Name arm of evaluate_value returns.
evaluate_name(expression, env) ==
    IF expression.name \in DOMAIN env
    THEN EvalOk(env[expression.name])
    ELSE EvalErr(location_to_string(expression.name_token.location)
                 \o ": Unknown variable '" \o expression.name \o "'")

\* The match on the unary operator.
apply_unary(operator, operand) ==
    CASE operator = "Negate" -> MvNeg(operand)
      [] operator = "Dual" -> dual(operand)
      [] operator = "Reverse" -> reverse(operand)

\* The match on the binary operator.
apply_binary(operator, operator_token, left, right) ==
    CASE operator = "Add" -> EvalOk(MvAdd(left, right))
      [] operator = "Subtract" -> EvalOk(MvSub(left, right))
      [] operator = "Multiply" -> EvalOk(MvMul(left, right))
      [] operator = "Divide" -> evaluate_divide(left, right, operator_token)
      [] operator = "Wedge" -> EvalOk(wedge(left, right))
      [] operator = "Inner" -> EvalOk(inner(left, right))
      [] operator = "Regressive" -> EvalOk(regressive(left, right))

RECURSIVE evaluate_value_right_first(_, _)
\* An evaluator that evaluates the right operand of a Binary node before
\* the left one.
evaluate_value_right_first(expression, env) ==
    CASE expression.kind = "Name" -> evaluate_name(expression, env)
      [] expression.kind = "Number" -> EvalOk(Scalar(expression.number))
      [] expression.kind = "Unary" ->
            LET operand == evaluate_value_right_first(expression.operand, env)
            IN IF operand.tag = "Err" THEN operand
               ELSE EvalOk(apply_unary(expression.operator, operand.value))
      [] expression.kind = "Binary" ->
            LET right == evaluate_value_right_first(expression.right, env)
            IN IF right.tag = "Err" THEN right
               ELSE LET left ==
                            evaluate_value_right_first(expression.left, env)
                    IN IF left.tag = "Err" THEN left
                       ELSE apply_binary(expression.operator,
                                         expression.operator_token,
                                         left.value, right.value)
RECURSIVE evaluate_value(_, _)
\* fn evaluate_value(expression, variables) -> Result<Multivector, String>
evaluate_value(expression, env) ==
    CASE expression.kind = "Name" -> evaluate_name(expression, env)
      [] expression.kind = "Number" -> EvalOk(Scalar(expression.number))
      [] expression.kind = "Unary" ->
            LET operand == evaluate_value(expression.operand, env)
            IN IF operand.tag = "Err" THEN operand
               ELSE EvalOk(apply_unary(expression.operator, operand.value))
      [] expression.kind = "Binary" ->
            LET left == evaluate_value(expression.left, env)
            IN IF left.tag = "Err" THEN left
               ELSE LET right == evaluate_value(expression.right, env)
                    IN IF right.tag = "Err" THEN right
                       ELSE apply_binary(expression.operator,
                                         expression.operator_token,
                                         left.value, right.value)

\* HashMap::insert
insert(map, key, value) ==
    [k \in DOMAIN map \cup {key} |-> IF k = key THEN value ELSE map[k]]

EmptyMap == [k \in {} |-> ZERO]

RECURSIVE insert_parameters(_, _, _)
\* for parameter in &self.parameters { self.variables.insert(..) }
insert_parameters(params, i, map) ==
    IF i > Len(params) THEN map
    ELSE insert_parameters(params, i + 1,
                           insert(map, params[i].name, params[i].value))

RECURSIVE run_statements_keep_first(_, _, _, _)
\* A driver that binds a name only when it is not bound yet.
run_statements_keep_first(stmts, i, env, errs) ==
    IF i > Len(stmts) THEN [variables |-> env, errors |-> errs]
    ELSE LET value == evaluate_value(stmts[i].value, env)
         IN IF value.tag = "Err"
            THEN [variables |-> env, errors |-> Append(errs, value.error)]
            ELSE run_statements_keep_first(stmts, i + 1,
                     IF stmts[i].name \in DOMAIN env THEN env
                     ELSE insert(env, stmts[i].name, value.value), errs)

RECURSIVE run_statements(_, _, _, _)
\* for statement in statements { ... }: the environment and the errors
\* after the loop, from statement i on.  An evaluation error leaves the
\* loop (break 'evaluation).
run_statements(stmts, i, env, errs) ==
    IF i > Len(stmts) THEN [variables |-> env, errors |-> errs]
    ELSE LET value == evaluate_value(stmts[i].value, env)
         IN IF value.tag = "Err"
            THEN [variables |-> env, errors |-> Append(errs, value.error)]
            ELSE run_statements(stmts, i + 1,
                                insert(env, stmts[i].name, value.value), errs)

\* A pass that rolls back on an evaluation error: the environment is the
\* one the pass started from.
evaluation_of_rolling_back(parsed, env) ==
    IF parsed.tag = "Err"
    THEN [variables |-> env,
          errors |-> <<parse_error_to_string(parsed.error)>>,
          statements |-> parsed]
    ELSE IF run_statements(parsed.statements, 1, env, <<>>).errors # <<>>
    THEN [statements |-> parsed, variables |-> env,
          errors |-> run_statements(parsed.statements, 1, env, <<>>).errors]
    ELSE [statements |-> parsed]
         @@ run_statements(parsed.statements, 1, env, <<>>)
\* The 'evaluation block of App::update_code after parse(&self.code).
evaluation_of(parsed, env) ==
    IF parsed.tag = "Err"
    THEN [variables |-> env,
          errors |-> <<parse_error_to_string(parsed.error)>>,
          statements |-> parsed]
    ELSE [statements |-> parsed]
         @@ run_statements(parsed.statements, 1, env, <<>>)

\* The 'evaluation block of App::update_code.
evaluation(source, env) == evaluation_of(parse(source), env)

\* The display pass of App::update_code.
display(values, env) ==
    [i \in 1..Len(values) |->
        [name |-> values[i].name,
         display_value |-> IF values[i].name \in DOMAIN env
                           THEN env[values[i].name] ELSE ZERO]]

\* The fields update_code leaves behind after the pass.
update_code_pass(pass) ==
    /\ variables' = pass.variables
    /\ errors' = pass.errors
    /\ statements' = pass.statements
    /\ values_to_display' = display(values_to_display, pass.variables)

\* An update_code that does not clear the environment of the last pass.
update_code_without_clear(c, p) ==
    update_code_pass(evaluation(c, insert_parameters(p, 1, variables)))

\* App::update_code, on the state with code c and parameters p.
update_code(c, p) ==
    update_code_pass(evaluation(c, insert_parameters(p, 1, EmptyMap)))

(***************************************************************************)
(* The application: App::new and App::update                               *)
(***************************************************************************)
Basis(name) ==
    CASE name = "e0" -> [ZERO EXCEPT !.e0 = D(1)]
      [] name = "e1" -> [ZERO EXCEPT !.e1 = D(1)]
      [] name = "e2" -> [ZERO EXCEPT !.e2 = D(1)]
      [] name = "e01" -> [ZERO EXCEPT !.e01 = D(1)]
      [] name = "e02" -> [ZERO EXCEPT !.e02 = D(1)]
      [] name = "e12" -> [ZERO EXCEPT !.e12 = D(1)]
      [] name = "e012" -> [ZERO EXCEPT !.e012 = D(1)]

ParameterNames == <<"e0", "e1", "e2", "e01", "e02", "e12", "e012">>

NotRun == [tag |-> "NotRun", statements |-> <<>>, error |-> NoParseError]

\* App::new
Init ==
    /\ last_time = "None"
    /\ code = <<>>
    /\ parameters = [i \in 1..Len(ParameterNames) |->
                        [name |-> ParameterNames[i],
                         value |-> Basis(ParameterNames[i])]]
    /\ errors = <<>>
    /\ variables = EmptyMap
    /\ values_to_display = <<[name |-> "e1", display_value |-> ZERO],
                             [name |-> "e2", display_value |-> ZERO],
                             [name |-> "e12", display_value |-> ZERO]>>
    /\ statements = NotRun

\* An App::update that copies the environment's values of the parameters'
\* names back into the parameters after the pass.
update_writing_back(c, p) ==
    /\ last_time' = "Some"
    /\ code' = c
    /\ IF last_time = "None" \/ c # code \/ p # parameters
       THEN update_code(c, p)
       ELSE UNCHANGED <<variables, errors, statements, values_to_display>>
    /\ parameters' =
          [i \in 1..Len(p) |->
              [name |-> p[i].name,
               value |-> IF p[i].name \in DOMAIN variables'
                         THEN variables'[p[i].name] ELSE p[i].value]]
\* One call of App::update in which the widgets leave the code c and the
\* parameters p: update_code runs when either changed or on the first frame.
update(c, p) ==
    /\ last_time' = "Some"
    /\ code' = c
    /\ parameters' = p
    /\ IF last_time = "None" \/ c # code \/ p # parameters
       THEN update_code(c, p)
       ELSE UNCHANGED <<variables, errors, statements, values_to_display>>

\* The first frame, nothing edited.
FirstFrame == last_time = "None" /\ update(code, parameters)

\* The code editor's text is emptied.
ClearCode == code # <<>> /\ update(<<>>, parameters)

(***************************************************************************)
(* Spec: scripts typed one statement text at a time, and parameter edits   *)
(***************************************************************************)
MaxCodeLen == 22
MaxEditedParameters == 1

Targets == {<<"a">>, <<"b">>}
ExpressionTexts ==
    {<<"2">>,
     <<"b">>,
     <<"a", " ", "+", " ", "1">>,
     <<"a", " ", "/", " ", "2">>,
     <<"1", " ", "/", " ", "b">>,
     <<"1", " ", "/", " ", "2">>}

AssignmentText(target, expression) ==
    target \o <<" ", "=", " ">> \o expression \o <<";">>

\* The texts the user types: assignments to a and b, an assignment to the
\* parameter e0, one on a new line, and three malformed statements.
CodeUnits ==
    {AssignmentText(t, e) : t \in Targets, e \in ExpressionTexts}
    \cup {<<"e", "0", " ", "=", " ", "2", ";">>,
          <<"\n", "b", " ", "=", " ", "e", "0", ";">>,
          <<"b", " ", "=", " ", "2">>,
          <<"a", " ", "=", " ", ";">>,
          <<"a", " ", "=", " ", "$", ";">>}

TypeStatement ==
    \E u \in CodeUnits :
        /\ Len(code) + Len(u) <= MaxCodeLen
        /\ update(code \o u, parameters)

\* edit_multivector on parameter i: its value becomes v.
EditParameterValue ==
    \E i \in 1..MaxEditedParameters :
        \E v \in {Basis(parameters[i].name),
                  MvAdd(Basis(parameters[i].name), Basis(parameters[i].name))} :
            /\ i <= Len(parameters)
            /\ parameters[i].value # v
            /\ update(code, [parameters EXCEPT ![i].value = v])

Next == FirstFrame \/ TypeStatement \/ ClearCode \/ EditParameterValue

Spec == Init /\ [][Next]_vars

(***************************************************************************)
(* SpecChains: one assignment "x = <operand> <op> <operand> ...;" typed    *)
(* into the empty editor, its first operand first                          *)
(***************************************************************************)
MaxOperands == 3

BinarySymbols == {"+", "-", "*", "/", "^", "|", "&"}
UnarySymbols == {"-", "!", "~"}

\* The prefixes an operand is written with: none, one unary operator, or
\* two nested ones.
UnaryPrefixes ==
    {<<>>} \cup {<<u>> : u \in UnarySymbols} \cup {<<"-", "~">>}

\* How an operand is written: its prefix, and whether the atom stands alone
\* or inside "(atom + atom)".
OperandForms == [prefix : UnaryPrefixes, parenthesized : BOOLEAN]
PlainForm == [prefix |-> <<>>, parenthesized |-> FALSE]

\* The atom of the operand at each position: number literals, or the names
\* of default parameters.
NumberAtoms == <<<<"1">>, <<"2">>, <<"3">>>>
NameAtoms == <<<<"e", "1">>, <<"e", "2">>, <<"e", "1", "2">>, <<"e", "0">>>>
AtomFamilies == {NumberAtoms, NameAtoms}

OperandText(atom, form) ==
    form.prefix \o
    (IF form.parenthesized
     THEN <<"(">> \o atom \o <<" ", "+", " ">> \o atom \o <<")">>
     ELSE atom)

RECURSIVE ChainText(_, _, _, _)
\* Operands i.. of the chain, each after its operator.
ChainText(atoms, forms, operators, i) ==
    IF i > Len(forms) THEN <<>>
    ELSE <<" ", operators[i - 1], " ">> \o OperandText(atoms[i], forms[i])
         \o ChainText(atoms, forms, operators, i + 1)

\* The forms of operands 1..n, at most one of them not plain, the first
\* operand having the form first.
ChainForms(n, first) ==
    {[i \in 1..n |-> IF i = 1 THEN first ELSE PlainForm]}
    \cup (IF first # PlainForm THEN {}
          ELSE {[i \in 1..n |-> IF i = k THEN form ELSE PlainForm] :
                   k \in 2..n, form \in OperandForms \ {PlainForm}})

\* "x = <first operand>"
ChainStart(atoms, first) ==
    <<"x", " ", "=", " ">> \o OperandText(atoms[1], first)

\* The first operand is typed into the empty editor of a running
\* application.
StartChain ==
    /\ last_time = "Some"
    /\ code = <<>>
    /\ \E atoms \in AtomFamilies, first \in OperandForms :
           update(ChainStart(atoms, first), parameters)

\* The rest of the chain and the semicolon are typed after the first
\* operand; operators[i] stands before operand i + 1.
CompleteChain ==
    \E atoms \in AtomFamilies, first \in OperandForms :
        /\ code = ChainStart(atoms, first)
        /\ \E n \in 1..MaxOperands :
               /\ n <= Len(atoms)
               /\ \E forms \in ChainForms(n, first),
                     operators \in [1..(n - 1) -> BinarySymbols] :
                      update(code \o ChainText(atoms, forms, operators, 2)
                                  \o <<";">>,
                             parameters)

NextChains == FirstFrame \/ StartChain \/ CompleteChain

SpecChains == Init /\ [][NextChains]_vars

(***************************************************************************)
(* SpecTokens: text typed a token at a time, at the start of the editor or *)
(* after one well-formed line                                              *)
(***************************************************************************)
MaxTyped == 4

WellFormedLine == <<"a", " ", "=", " ", "1", ";", "\n">>

Pieces ==
    {<<"a">>, <<"=">>, <<"1", " ">>, <<";">>, <<"+">>, <<"(">>, <<")">>, <<"$">>,
     <<"1", ".", ".">>}

\* The text typed after the well-formed line, if that line was entered.
TypedPart(text) ==
    IF Len(WellFormedLine) <= Len(text)
       /\ SubSeq(text, 1, Len(WellFormedLine)) = WellFormedLine
    THEN SubSeq(text, Len(WellFormedLine) + 1, Len(text))
    ELSE text

EnterWellFormedLine == code = <<>> /\ update(WellFormedLine, parameters)

TypePiece ==
    \E p \in Pieces :
        /\ Len(TypedPart(code)) + Len(p) <= MaxTyped
        /\ update(code \o p, parameters)

NextTokens == FirstFrame \/ EnterWellFormedLine \/ TypePiece

SpecTokens == Init /\ [][NextTokens]_vars

(***************************************************************************)
(* SpecIdentifiers: one assignment that uses an identifier as its target   *)
(* or as an operand, entered into the empty editor                         *)
(***************************************************************************)
ReservedSpellings ==
    {<<"n", "o", "r", "m", "a", "l", "i", "z", "e">>,
     <<"m", "a", "g", "n", "i", "t", "u", "d", "e">>,
     <<"s", "i", "n">>,
     <<"c", "o", "s">>,
     <<"a", "s", "i", "n">>,
     <<"a", "c", "o", "s">>}

\* Each reserved spelling, and the spellings next to it: one character
\* longer, one shorter, and with its first letter in upper case.
Identifiers ==
    ReservedSpellings
    \cup {k \o <<s>> : k \in ReservedSpellings, s \in {"e", "2", "_"}}
    \cup {<<"_">> \o k : k \in ReservedSpellings}
    \cup {SubSeq(k, 1, Len(k) - 1) : k \in ReservedSpellings}
    \cup {<<"N", "o", "r", "m", "a", "l", "i", "z", "e">>,
          <<"M", "a", "g", "n", "i", "t", "u", "d", "e">>,
          <<"S", "i", "n">>,
          <<"C", "o", "s">>,
          <<"A", "s", "i", "n">>,
          <<"A", "c", "o", "s">>}

IdentifierUses ==
    {"target", "operand", "right operand", "unary operand", "parenthesized"}

\* The text before and after the identifier in each use.
UseBefore(use) ==
    CASE use = "target" -> <<>>
      [] use = "operand" -> <<"x", " ", "=", " ">>
      [] use = "right operand" -> <<"x", " ", "=", " ", "1", " ", "+", " ">>
      [] use = "unary operand" -> <<"x", " ", "=", " ", "-">>
      [] use = "parenthesized" -> <<"x", " ", "=", " ", "(">>
UseAfter(use) ==
    CASE use = "target" -> <<" ", "=", " ", "1", ";">>
      [] use = "parenthesized" -> <<")", ";">>
      [] OTHER -> <<";">>

UseText(id, use) == UseBefore(use) \o id \o UseAfter(use)

EnterIdentifier ==
    /\ code = <<>>
    /\ \E id \in Identifiers, use \in IdentifierUses :
           update(UseText(id, use), parameters)

NextIdentifiers == FirstFrame \/ EnterIdentifier \/ ClearCode

SpecIdentifiers == Init /\ [][NextIdentifiers]_vars

(***************************************************************************)
(* SpecAlgebra: the parameters e1 and e2 edited to multivectors of a       *)
(* bounded family, then a script over them entered into the empty editor   *)
(***************************************************************************)
MaxScale == 1

\* The eight basis blades 1, e0, e1, e2, e01, e02, e12, e012.
Blades ==
    <<Scalar(D(1)), Basis("e0"), Basis("e1"), Basis("e2"),
      Basis("e01"), Basis("e02"), Basis("e12"), Basis("e012")>>

\* Two vectors (grade 1 only) and two multivectors with every component set.
MixedVectors ==
    {Multivector(D(0), D(1), D(2), D(0 - 3), D(0), D(0), D(0), D(0)),
     Multivector(D(0), D(3), D(0 - 1), D(2), D(0), D(0), D(0), D(0))}
MixedValues ==
    MixedVectors
    \cup {Multivector(D(1), D(2), D(3), D(0 - 1), D(2), D(0 - 3), D(1), D(2)),
          Multivector(D(2), D(0 - 1), D(1), D(3), D(0 - 2), D(1), D(0 - 1), D(3))}

\* A bivector (grade 2 only) with every bivector component set.
MixedBivectors ==
    {Multivector(D(0), D(0), D(0), D(0), D(2), D(0 - 1), D(3), D(0))}

\* The values the edit_multivector widgets are dragged to: every blade and
\* every mixed value, times each whole factor up to MaxScale either way.
AlgebraValues ==
    {MvMulF32(v, D(k)) :
        v \in {Blades[i] : i \in 1..Len(Blades)}
                 \cup MixedValues \cup MixedBivectors,
        k \in (0 - MaxScale)..MaxScale}

\* The position of the parameter called name in App.parameters.
OperandIndex(name) ==
    CHOOSE i \in 1..Len(ParameterNames) : ParameterNames[i] = name
Operand(name) == parameters[OperandIndex(name)].value

ProductScript == <<"x", " ", "=", " ", "e", "1", " ", "*", " ", "e", "2", ";">>

ReverseScript == <<"x", " ", "=", " ", "~", "~", "e", "1", ";">>

WedgeScript ==
    <<"x", " ", "=", " ", "e", "1", " ", "^", " ", "e", "1", ";",
      "y", " ", "=", " ", "e", "1", " ", "^", " ", "e", "2", ";",
      "z", " ", "=", " ", "e", "2", " ", "^", " ", "e", "1", ";">>

RegressiveScript ==
    <<"x", " ", "=", " ", "e", "1", " ", "&", " ", "e", "2", ";",
      "y", " ", "=", " ", "!", "(", "!", "e", "1", " ", "^", " ",
      "!", "e", "2", ")", ";">>

InnerScript == <<"x", " ", "=", " ", "e", "1", " ", "|", " ", "e", "2", ";">>

DualScript == <<"x", " ", "=", " ", "!", "e", "1", ";">>

AlgebraScripts ==
    {ProductScript, ReverseScript, WedgeScript, RegressiveScript,
     InnerScript, DualScript}

\* edit_multivector on the parameter e1 or e2 (its type set to Multivector):
\* the value becomes v.  e2 is edited last, and once.
EditOperand ==
    \E n \in {"e1", "e2"}, v \in AlgebraValues :
        /\ last_time = "Some"
        /\ code = <<>>
        /\ Operand("e2") = Basis("e2")
        /\ update(code, [parameters EXCEPT ![OperandIndex(n)].value = v])

EnterScript ==
    \E script \in AlgebraScripts :
        /\ last_time = "Some"
        /\ code = <<>>
        /\ update(script, parameters)

NextAlgebra == FirstFrame \/ EditOperand \/ EnterScript

SpecAlgebra == Init /\ [][NextAlgebra]_vars

(***************************************************************************)
(* SpecNormalise: the parameters e1 and e2 edited to multivectors of       *)
(* magnitudes around the threshold, and the Normalise buttons pressed      *)
(***************************************************************************)
MaxDoublings == 2

RECURSIVE Pow2(_)
Pow2(k) == IF k = 0 THEN 1 ELSE 2 * Pow2(k - 1)

\* Values of magnitude 1 and 5 (the e0, e01, e02, e012 components do not
\* count), values of magnitude 0 that are not zero, and zero.
UnitValues ==
    {Basis("e1"),
     Multivector(D(0), D(1), D(1), D(0), D(0), D(0), D(0), D(0)),
     Multivector(D(0), D(0), D(3), D(4), D(0), D(0), D(0), D(0)),
     Multivector(D(0), D(0), D(3), D(0 - 4), D(0), D(0), D(0), D(0)),
     Multivector(D(3), D(2), D(0), D(0), D(0), D(1), D(4), D(1)),
     Basis("e0"),
     Multivector(D(0), D(0), D(0), D(0), D(1), D(0), D(0), D(1)),
     ZERO}

\* 1 and 0.00002: five times the latter is the threshold 0.0001.
Measures == {D(1), <<2, 5>>}

NormaliseValues ==
    {MvMulF32(MvMulF32(u, D(Pow2(k))), m) :
        u \in UnitValues, k \in 0..MaxDoublings, m \in Measures}

\* edit_multivector on the parameter e1 or e2 (its type set to Multivector):
\* the value becomes v.  e2 is edited last, and once.
EditMagnitude ==
    \E n \in {"e1", "e2"}, v \in NormaliseValues :
        /\ last_time = "Some"
        /\ code = <<>>
        /\ Operand("e2") = Basis("e2")
        /\ update(code, [parameters EXCEPT ![OperandIndex(n)].value = v])

\* The Normalise button of parameter i is clicked and nothing else is
\* touched in the frame: the value is replaced, and update_code does not
\* run, since the click does not set code_or_parameters_changed.
Normalise(i) ==
    /\ last_time = "Some"
    /\ last_time' = "Some"
    /\ parameters' =
          [parameters EXCEPT ![i].value = normalised(parameters[i].value)]
    /\ UNCHANGED <<code, variables, errors, statements, values_to_display>>

ClickNormalise == \E i \in 1..Len(parameters) : Normalise(i)

NextNormalise == FirstFrame \/ EditMagnitude \/ ClickNormalise

SpecNormalise == Init /\ [][NextNormalise]_vars
(***************************************************************************)
(* SpecLexer: the script typed one character at a time                     *)
(***************************************************************************)
MaxChars == 5

\* A digit, the dot, a letter, a line break, '=' and a numeric character
\* that is not an ASCII digit (two bytes long).
LexerAlphabet == {"1", ".", "a", "\n", "=", "²"}

TypeCharacter ==
    \E c \in LexerAlphabet :
        /\ Len(code) < MaxChars
        /\ update(Append(code, c), parameters)

NextLexer == FirstFrame \/ TypeCharacter

SpecLexer == Init /\ [][NextLexer]_vars
(***************************************************************************)
(* SpecPasses: statements typed and cleared, the parameter e1 edited and   *)
(* normalised, in any order                                                *)
(***************************************************************************)
MaxStatements == 3

\* An assignment from a parameter, one to a parameter's name, and one that
\* reads the target of the first.
PassUnits ==
    {<<"a", " ", "=", " ", "e", "1", ";">>,
     <<"e", "1", " ", "=", " ", "2", ";">>,
     <<"b", " ", "=", " ", "a", ";">>}

TypePassStatement ==
    \E u \in PassUnits :
        /\ Cardinality({k \in 1..Len(code) : code[k] = ";"}) < MaxStatements
        /\ update(code \o u, parameters)

\* edit_multivector on the parameter e1: the value becomes v.
EditPassParameter ==
    \E v \in {Basis("e1"), MvMulF32(Basis("e1"), D(2)),
              MvMulF32(Basis("e2"), D(4))} :
        /\ last_time = "Some"
        /\ update(code, [parameters EXCEPT ![OperandIndex("e1")].value = v])

NextPasses ==
    \/ FirstFrame
    \/ TypePassStatement
    \/ ClearCode
    \/ EditPassParameter
    \/ ClickNormalise

SpecPasses == Init /\ [][NextPasses]_vars

(***************************************************************************)
(* Typing texts of names, symbols, two-byte characters, spaces and line    *)
(* breaks: the places the lexer gives its tokens.                          *)
(***************************************************************************)
MaxLocated == 5

\* A letter, a space, a line break, '=' and a two-byte letter.
LocatedAlphabet == {"a", " ", "\n", "=", "é"}

TypeLocated ==
    \E c \in LocatedAlphabet :
        /\ Len(code) < MaxLocated
        /\ update(Append(code, c), parameters)

NextLocations == FirstFrame \/ TypeLocated

SpecLocations == Init /\ [][NextLocations]_vars

(***************************************************************************)
(* Typing an assignment with a parenthesized group: "x = l ( e", then the  *)
(* closing parenthesis or something else in its place, what follows the    *)
(* group, and the semicolon or nothing.                                    *)
(***************************************************************************)
MaxInner == 2

GroupAtoms == {"1", "2", "3"}
GroupOperators == {"+", "-", "*"}

RECURSIVE InnerTexts(_)
\* The expressions of n number literals joined by operators.
InnerTexts(n) ==
    IF n = 1 THEN {<<a>> : a \in GroupAtoms}
    ELSE {t \o <<" ", o, " ", a>> :
             t \in InnerTexts(n - 1), o \in GroupOperators, a \in GroupAtoms}
Inners == UNION {InnerTexts(n) : n \in 1..MaxInner}

\* What stands to the left and to the right of the group.
Lefts == {<<>>, <<"1", " ", "-", " ">>, <<"2", " ", "*", " ">>}
Rights == {<<>>, <<" ", "*", " ", "3">>, <<" ", "-", " ", "1">>}

\* What stands where the closing parenthesis belongs: the parenthesis,
\* nothing, or a number.
Closings == {<<")">>, <<>>, <<" ", "1">>}
Ends == {<<";">>, <<>>}

GroupStart(l, e) == <<"x", " ", "=", " ">> \o l \o <<"(">> \o e

OpenGroup ==
    /\ last_time = "Some"
    /\ code = <<>>
    /\ \E l \in Lefts, e \in Inners : update(GroupStart(l, e), parameters)

CloseGroup ==
    \E l \in Lefts, e \in Inners :
        /\ code = GroupStart(l, e)
        /\ \E c \in Closings, r \in Rights, end \in Ends :
               /\ c \o r \o end # <<>>
               /\ update(code \o c \o r \o end, parameters)

NextGroups == FirstFrame \/ OpenGroup \/ CloseGroup

SpecGroups == Init /\ [][NextGroups]_vars

(***************************************************************************)
(* Typing one assignment whose operands may fail: numbers, a parameter,    *)
(* the unknown name u and the negated unknown name v, joined by +, * and   *)
(* the unimplemented /.                                                    *)
(***************************************************************************)
MaxTerms == 3

Terms == {<<"1">>, <<"e", "1">>, <<"u">>, <<"-", "v">>}
TermOperators == {"+", "*", "/"}

RECURSIVE TermChains(_)
\* The expressions of n terms joined by operators.
TermChains(n) ==
    IF n = 1 THEN Terms
    ELSE {t \o <<" ", o, " ">> \o a :
             t \in TermChains(n - 1), o \in TermOperators, a \in Terms}

TypeTerms ==
    /\ last_time = "Some"
    /\ code = <<>>
    /\ \E n \in 1..MaxTerms :
           \E t \in TermChains(n) :
               update(<<"x", " ", "=", " ">> \o t \o <<";">>, parameters)

NextOperands == FirstFrame \/ TypeTerms \/ ClearCode

SpecOperands == Init /\ [][NextOperands]_vars
(***************************************************************************)
(* Definitions the properties are stated with                              *)
(***************************************************************************)
\* The environment the host builds from its parameters: each name bound to
\* the value of the last parameter of that name.
ParameterEnv ==
    [n \in {parameters[i].name : i \in 1..Len(parameters)} |->
        LET last == CHOOSE i \in 1..Len(parameters) :
                        /\ parameters[i].name = n
                        /\ \A j \in (i + 1)..Len(parameters) :
                               parameters[j].name # n
        IN parameters[last].value]

\* The statements of the last pass (none when the parse failed).
Stmts == statements.statements

Parsed == statements.tag = "Ok"

\* The assignments to name n among the first k statements.
AssignmentsTo(n, k) == {j \in 1..k : Stmts[j].name = n}

Max(S) == CHOOSE x \in S : \A y \in S : y <= x

RECURSIVE EnvBefore(_)
\* The environment statement i is to be evaluated in: each name resolved to
\* the value of the last assignment to it before statement i, or else to its
\* parameter.
EnvBefore(i) ==
    LET assigned == {Stmts[j].name : j \in 1..(i - 1)}
    IN [n \in assigned \cup DOMAIN ParameterEnv |->
           IF n \in assigned
           THEN LET j == Max(AssignmentsTo(n, i - 1))
                IN evaluate_value(Stmts[j].value, EnvBefore(j)).value
           ELSE ParameterEnv[n]]

\* The result of statement i in its environment.
ResultOf(i) == evaluate_value(Stmts[i].value, EnvBefore(i))

\* Every statement before statement i evaluated successfully.
Reached(i) == \A j \in 1..(i - 1) : ResultOf(j).tag = "Ok"

\* The environment after statements 1..n when a failed statement is skipped
\* and the later ones still run.
RECURSIVE SkippingRun(_, _, _)
SkippingRun(i, env, errs) ==
    IF i > Len(Stmts) THEN [variables |-> env, errors |-> errs]
    ELSE LET value == evaluate_value(Stmts[i].value, env)
         IN IF value.tag = "Err"
            THEN SkippingRun(i + 1, env, Append(errs, value.error))
            ELSE SkippingRun(i + 1, insert(env, Stmts[i].name, value.value),
                             errs)

\* 1-based line and column of the character at byte offset position of an
\* ASCII text, counted from the text itself.
LineAt(text, position) ==
    1 + Cardinality({k \in 1..position : text[k] = "\n"})
ColumnAt(text, position) ==
    LET breaks == {k \in 1..position : text[k] = "\n"}
    IN IF breaks = {} THEN position + 1 ELSE position - Max(breaks) + 1

\* "{line}:{column}" of the token at byte offset position.
Where(text, position) ==
    ToString(LineAt(text, position)) \o ":" \o
    ToString(ColumnAt(text, position))

IsPrefix(p, t) == Len(p) <= Len(t) /\ SubSeq(t, 1, Len(p)) = p

(***************************************************************************)
(* Properties                                                              *)
(***************************************************************************)
\* C1: when evaluation of a statement fails, its error is recorded, its
\* target keeps its previous binding, and every later statement is still
\* executed: the pass ends with the environment and the errors of a run
\* that skips each failed statement.
C1_LaterStatementsStillRun ==
    (Parsed /\ last_time = "Some") =>
        LET run == SkippingRun(1, ParameterEnv, <<>>)
        IN variables = run.variables /\ errors = run.errors

\* C2: when parse(source) fails, the pass executes no statement: exactly one
\* error is reported and the environment holds the parameters only.
C2_ParseErrorRunsNothing ==
    statements.tag = "Err" =>
        /\ Len(errors) = 1
        /\ errors[1] = parse_error_to_string(statements.error)
        /\ variables = ParameterEnv

\* A parse failure in a statement that follows the well-formed "a = 2;".
C2_Witness ==
    /\ statements.tag = "Err"
    /\ IsPrefix(AssignmentText(<<"a">>, <<"2">>), code)
    /\ Len(errors) = 1
    /\ "a" \notin DOMAIN variables

\* C3: statements execute in source order against one environment: after a
\* pass without errors every assigned name holds the value of the last
\* assignment to it, evaluated with each name resolved to the last
\* assignment before that statement (the statement's own target included);
\* "a = 2;b = a + 1;" binds a = 2, b = 3.
C3_SequentialEnvironment ==
    (Parsed /\ errors = <<>> /\ last_time = "Some") =>
        /\ variables = EnvBefore(Len(Stmts) + 1)
        /\ code = AssignmentText(<<"a">>, <<"2">>)
                  \o AssignmentText(<<"b">>, <<"a", " ", "+", " ", "1">>)
             => variables["a"] = Scalar(D(2)) /\ variables["b"] = Scalar(D(3))
        /\ code = AssignmentText(<<"a">>, <<"2">>)
                  \o AssignmentText(<<"a">>, <<"a", " ", "+", " ", "1">>)
             => variables["a"] = Scalar(D(3))

\* "b = 2;a = b;a = a + 1;": a statement sees an earlier assignment, a
\* statement reads its own target, and the later assignment overwrites.
C3_Witness ==
    /\ code = AssignmentText(<<"b">>, <<"2">>)
              \o AssignmentText(<<"a">>, <<"b">>)
              \o AssignmentText(<<"a">>, <<"a", " ", "+", " ", "1">>)
    /\ errors = <<>>
    /\ variables["b"] = Scalar(D(2))
    /\ variables["a"] = Scalar(D(3))

\* The statements the driver reached whose expression is a division.
ReachedDivisions ==
    {i \in 1..Len(Stmts) :
        /\ Reached(i)
        /\ Stmts[i].value.kind = "Binary"
        /\ Stmts[i].value.operator = "Divide"}

DivideError(i) ==
    Where(code, Stmts[i].value.operator_token.location.position)
    \o ": Divide unimplemented"

\* C4 as claimed: a division fails with "Divide unimplemented" at the '/'
\* token for any operand expressions, and the statement yields exactly that
\* one error.
C4_DivideAlwaysUnimplemented ==
    Parsed => \A i \in ReachedDivisions :
                  /\ code[Stmts[i].value.operator_token.location.position + 1]
                        = "/"
                  /\ errors = <<DivideError(i)>>

\* C4 amended: a division always fails, and the statement yields exactly
\* one error; it is "Divide unimplemented" at the '/' token when both
\* operands evaluate successfully (for any operand values), and otherwise
\* the error of the first operand that fails.
C4_DivideUnimplementedAfterOperands ==
    Parsed => \A i \in ReachedDivisions :
        LET left == evaluate_value(Stmts[i].value.left, EnvBefore(i))
            right == evaluate_value(Stmts[i].value.right, EnvBefore(i))
        IN /\ code[Stmts[i].value.operator_token.location.position + 1] = "/"
           /\ Len(errors) >= 1
           /\ i = Len(Stmts) => Len(errors) = 1
           /\ errors[1] = IF left.tag = "Err" THEN left.error
                          ELSE IF right.tag = "Err" THEN right.error
                          ELSE DivideError(i)
           /\ code = AssignmentText(<<"a">>, <<"1", " ", "/", " ", "2">>)
                => errors = <<"1:7: Divide unimplemented">>

\* A division of two bound operands in the second statement.
C4_Witness ==
    /\ code = AssignmentText(<<"a">>, <<"2">>)
              \o AssignmentText(<<"b">>, <<"a", " ", "/", " ", "2">>)
    /\ errors = <<"1:13: Divide unimplemented">>

RECURSIVE NameNodes(_)
\* The Name nodes of an expression.
NameNodes(expression) ==
    CASE expression.kind = "Name" -> {expression}
      [] expression.kind = "Number" -> {}
      [] expression.kind = "Unary" -> NameNodes(expression.operand)
      [] expression.kind = "Binary" ->
            NameNodes(expression.left) \cup NameNodes(expression.right)

UnknownVariableError(node) ==
    Where(code, node.name_token.location.position)
    \o ": Unknown variable '" \o node.name \o "'"

NameShape(name) ==
    [kind |-> "Name", operator |-> "", name |-> name, number |-> DZero,
     children |-> <<>>]
NumberShape(number) ==
    [kind |-> "Number", operator |-> "", name |-> "", number |-> number,
     children |-> <<>>]
UnaryShape(operator, operand) ==
    [kind |-> "Unary", operator |-> operator, name |-> "", number |-> DZero,
     children |-> <<operand>>]
BinaryShape(operator, left, right) ==
    [kind |-> "Binary", operator |-> operator, name |-> "", number |-> DZero,
     children |-> <<left, right>>]

RECURSIVE ShapeOf(_)
ShapeOf(expression) ==
    CASE expression.kind = "Name" -> NameShape(expression.name)
      [] expression.kind = "Number" -> NumberShape(expression.number)
      [] expression.kind = "Unary" ->
            UnaryShape(expression.operator, ShapeOf(expression.operand))
      [] expression.kind = "Binary" ->
            BinaryShape(expression.operator, ShapeOf(expression.left),
                        ShapeOf(expression.right))

RECURSIVE TokensFrom(_)
\* The tokens the lexer yields from its position up to the end of the
\* source or its first error.
TokensFrom(lexer) ==
    LET r == next_token(lexer)
    IN IF r.tag = "Ok" THEN <<r.token>> \o TokensFrom(r.lexer) ELSE <<>>

RECURSIVE LexerFailsFrom(_)
LexerFailsFrom(lexer) ==
    LET r == next_token(lexer)
    IN r.tag = "Err" \/ (r.tag = "Ok" /\ LexerFailsFrom(r.lexer))

\* The tokens of the editor's text.
Tokens == TokensFrom(Lexer_new(code))

\* The tokens between "name =" and ";" of a text that is one assignment.
ExpressionTokens == SubSeq(Tokens, 3, Len(Tokens) - 1)

Level1 == {"Plus", "Minus"}
Level2 == {"Asterisk", "Slash", "Caret", "Pipe", "Ampersand"}
InfixNames ==
    [Plus |-> "Add", Minus |-> "Subtract", Asterisk |-> "Multiply",
     Slash |-> "Divide", Caret |-> "Wedge", Pipe |-> "Inner",
     Ampersand |-> "Regressive"]
PrefixNames ==
    [Minus |-> "Negate", ExclamationMark |-> "Dual", Tilde |-> "Reverse"]
OperandEnds == {"Name", "Number", "CloseParenthesis"}

\* The number of parentheses open before token i.
Depth(ts, i) ==
    Cardinality({j \in 1..(i - 1) : ts[j].kind = "OpenParenthesis"})
    - Cardinality({j \in 1..(i - 1) : ts[j].kind = "CloseParenthesis"})

\* The operators of a level that stand between two operands outside every
\* parenthesis.
InfixAt(ts, level) ==
    {i \in 2..Len(ts) : /\ ts[i].kind \in level
                        /\ ts[i - 1].kind \in OperandEnds
                        /\ Depth(ts, i) = 0}

\* The operators that stand in front of an operand.
PrefixAt(ts) ==
    {i \in 1..Len(ts) : /\ ts[i].kind \in DOMAIN PrefixNames
                        /\ (i = 1 \/ ts[i - 1].kind \notin OperandEnds)}

AtomAt(ts, i) == ts[i].kind \in {"Name", "Number"}
AtomShape(token) ==
    IF token.kind = "Name" THEN NameShape(token.text)
    ELSE NumberShape(token.number)

RECURSIVE Grouping(_)
\* The tree of an expression by the grammar's rules: it splits at its last
\* level-1 operator, else at its last level-2 operator, else it is a prefix
\* operator applied to the rest, a parenthesized expression, or an atom.
Grouping(ts) ==
    IF InfixAt(ts, Level1) # {}
    THEN LET k == Max(InfixAt(ts, Level1))
         IN BinaryShape(InfixNames[ts[k].kind],
                        Grouping(SubSeq(ts, 1, k - 1)),
                        Grouping(SubSeq(ts, k + 1, Len(ts))))
    ELSE IF InfixAt(ts, Level2) # {}
    THEN LET k == Max(InfixAt(ts, Level2))
         IN BinaryShape(InfixNames[ts[k].kind],
                        Grouping(SubSeq(ts, 1, k - 1)),
                        Grouping(SubSeq(ts, k + 1, Len(ts))))
    ELSE IF ts[1].kind \in DOMAIN PrefixNames
    THEN UnaryShape(PrefixNames[ts[1].kind], Grouping(Tail(ts)))
    ELSE IF ts[1].kind = "OpenParenthesis"
    THEN Grouping(SubSeq(ts, 2, Len(ts) - 1))
    ELSE AtomShape(ts[1])

\* C6: level-2 binary operators (* / ^ | &) bind tighter than level-1
\* operators (+ -) wherever they appear: an expression that holds both
\* splits at a level-1 operator first; for atoms a, b, c and op1 of level 1,
\* op2 of level 2, "a op1 b op2 c" is op1(a, op2(b, c)) and "a op2 b op1 c"
\* is op1(op2(a, b), c); "x = 1 + 2 * 3;" binds x to the scalar 7.
C6_Level2BindsTighter ==
    (Parsed /\ Len(Stmts) = 1) =>
        LET ts == ExpressionTokens
            tree == ShapeOf(Stmts[1].value)
        IN /\ (InfixAt(ts, Level1) # {} /\ InfixAt(ts, Level2) # {})
                => tree = Grouping(ts)
           /\ (Len(ts) = 5 /\ AtomAt(ts, 1) /\ AtomAt(ts, 3) /\ AtomAt(ts, 5))
                => /\ (ts[2].kind \in Level1 /\ ts[4].kind \in Level2) =>
                          tree = BinaryShape(InfixNames[ts[2].kind],
                                     AtomShape(ts[1]),
                                     BinaryShape(InfixNames[ts[4].kind],
                                         AtomShape(ts[3]), AtomShape(ts[5])))
                   /\ (ts[2].kind \in Level2 /\ ts[4].kind \in Level1) =>
                          tree = BinaryShape(InfixNames[ts[4].kind],
                                     BinaryShape(InfixNames[ts[2].kind],
                                         AtomShape(ts[1]), AtomShape(ts[3])),
                                     AtomShape(ts[5]))
           /\ code =
                  <<"x", " ", "=", " ", "1", " ", "+", " ", "2", " ", "*",
                    " ", "3", ";">>
                => /\ tree = BinaryShape("Add", NumberShape(D(1)),
                                 BinaryShape("Multiply", NumberShape(D(2)),
                                             NumberShape(D(3))))
                   /\ errors = <<>>
                   /\ variables["x"] = Scalar(D(7))

\* "x = 1 + 2 * 3;" has run: x is 7.
C6_Witness ==
    /\ code =
           <<"x", " ", "=", " ", "1", " ", "+", " ", "2", " ", "*", " ", "3",
             ";">>
    /\ Parsed
    /\ errors = <<>>
    /\ variables["x"] = Scalar(D(7))

\* C7: binary operators of one level chain to the left: an expression whose
\* operators outside parentheses are all of one level splits at the last of
\* them; for atoms a, b, c and op1, op2 of one level, "a op1 b op2 c" is
\* op2(op1(a, b), c); "x = 1 - 2 - 3;" binds x to the scalar -4.
C7_LeftAssociative ==
    (Parsed /\ Len(Stmts) = 1) =>
        LET ts == ExpressionTokens
            tree == ShapeOf(Stmts[1].value)
        IN /\ (\/ (InfixAt(ts, Level1) = {}
                     /\ Cardinality(InfixAt(ts, Level2)) >= 2)
               \/ (InfixAt(ts, Level2) = {}
                     /\ Cardinality(InfixAt(ts, Level1)) >= 2))
                => tree = Grouping(ts)
           /\ (/\ Len(ts) = 5 /\ AtomAt(ts, 1) /\ AtomAt(ts, 3) /\ AtomAt(ts, 5)
               /\ \E level \in {Level1, Level2} :
                      ts[2].kind \in level /\ ts[4].kind \in level)
                => tree = BinaryShape(InfixNames[ts[4].kind],
                              BinaryShape(InfixNames[ts[2].kind],
                                  AtomShape(ts[1]), AtomShape(ts[3])),
                              AtomShape(ts[5]))
           /\ code =
                  <<"x", " ", "=", " ", "1", " ", "-", " ", "2", " ", "-",
                    " ", "3", ";">>
                => /\ errors = <<>>
                   /\ variables["x"] = Scalar(D(0 - 4))
           /\ code =
                  <<"x", " ", "=", " ", "e", "1", " ", "*", " ", "e", "2",
                    " ", "^", " ", "e", "1", "2", ";">>
                => tree = BinaryShape("Wedge",
                              BinaryShape("Multiply", NameShape("e1"),
                                          NameShape("e2")),
                              NameShape("e12"))

\* "x = 1 - 2 - 3;" has run: x is -4.
C7_Witness ==
    /\ code =
           <<"x", " ", "=", " ", "1", " ", "-", " ", "2", " ", "-", " ", "3",
             ";">>
    /\ Parsed
    /\ errors = <<>>
    /\ variables["x"] = Scalar(D(0 - 4))

\* C8: a prefix operator (-, !, ~) applies to the next atom, parenthesized
\* expression or prefixed operand only, never to a following binary
\* operation: an expression that holds a prefix operator has the tree of
\* the grammar; "u p b q" is b(u(p), q); in "a b1 u p b2 q" the prefix
\* operator applies to p alone, and the two binary operators group by
\* their levels; "-e1 ^ e2" is Wedge(Negate(e1), e2) and "1 * -2 + 3" is
\* Add(Multiply(1, Negate(2)), 3), which is 1.
C8_UnaryBindsToOperand ==
    (Parsed /\ Len(Stmts) = 1) =>
        LET ts == ExpressionTokens
            tree == ShapeOf(Stmts[1].value)
        IN /\ PrefixAt(ts) # {} => tree = Grouping(ts)
           /\ (/\ Len(ts) = 4 /\ ts[1].kind \in DOMAIN PrefixNames
               /\ AtomAt(ts, 2) /\ AtomAt(ts, 4))
                => tree = BinaryShape(InfixNames[ts[3].kind],
                              UnaryShape(PrefixNames[ts[1].kind],
                                         AtomShape(ts[2])),
                              AtomShape(ts[4]))
           /\ (/\ Len(ts) = 6 /\ AtomAt(ts, 1) /\ AtomAt(ts, 4) /\ AtomAt(ts, 6)
               /\ ts[3].kind \in DOMAIN PrefixNames)
                => tree =
                     IF ts[2].kind \in Level1 /\ ts[5].kind \in Level2
                     THEN BinaryShape(InfixNames[ts[2].kind],
                              AtomShape(ts[1]),
                              BinaryShape(InfixNames[ts[5].kind],
                                  UnaryShape(PrefixNames[ts[3].kind],
                                             AtomShape(ts[4])),
                                  AtomShape(ts[6])))
                     ELSE BinaryShape(InfixNames[ts[5].kind],
                              BinaryShape(InfixNames[ts[2].kind],
                                  AtomShape(ts[1]),
                                  UnaryShape(PrefixNames[ts[3].kind],
                                             AtomShape(ts[4]))),
                              AtomShape(ts[6]))
           /\ code =
                  <<"x", " ", "=", " ", "-", "e", "1", " ", "^", " ", "e",
                    "2", ";">>
                => tree = BinaryShape("Wedge",
                              UnaryShape("Negate", NameShape("e1")),
                              NameShape("e2"))
           /\ code =
                  <<"x", " ", "=", " ", "1", " ", "*", " ", "-", "2", " ",
                    "+", " ", "3", ";">>
                => /\ tree = BinaryShape("Add",
                                 BinaryShape("Multiply", NumberShape(D(1)),
                                     UnaryShape("Negate", NumberShape(D(2)))),
                                 NumberShape(D(3)))
                   /\ variables["x"] = Scalar(D(1))

\* "x = -e1 ^ e2;" has parsed: the wedge of -e1 and e2.
C8_Witness ==
    /\ code =
           <<"x", " ", "=", " ", "-", "e", "1", " ", "^", " ", "e", "2", ";">>
    /\ Parsed
    /\ Stmts[1].value.kind = "Binary"
    /\ Stmts[1].value.operator = "Wedge"
    /\ Stmts[1].value.left.kind = "Unary"
    /\ Stmts[1].value.left.operand.kind = "Name"

\* What the grammar  statement := NAME '=' expression ';'  accepts after
\* each token: the next place, or "Rejected".  Places: "Statement" (a NAME
\* is due), "Equal", "Operand", "Operator" (an operand has ended); depth
\* counts the open parentheses.
Accept(place, depth, kind) ==
    CASE place = "Statement" ->
            IF kind = "Name" THEN [place |-> "Equal", depth |-> 0]
            ELSE [place |-> "Rejected", depth |-> 0]
      [] place = "Equal" ->
            IF kind = "Equal" THEN [place |-> "Operand", depth |-> 0]
            ELSE [place |-> "Rejected", depth |-> 0]
      [] place = "Operand" ->
            IF kind \in {"Name", "Number"}
            THEN [place |-> "Operator", depth |-> depth]
            ELSE IF kind \in DOMAIN PrefixNames
            THEN [place |-> "Operand", depth |-> depth]
            ELSE IF kind = "OpenParenthesis"
            THEN [place |-> "Operand", depth |-> depth + 1]
            ELSE [place |-> "Rejected", depth |-> depth]
      [] place = "Operator" ->
            IF kind \in DOMAIN InfixNames
            THEN [place |-> "Operand", depth |-> depth]
            ELSE IF kind = "CloseParenthesis" /\ depth > 0
            THEN [place |-> "Operator", depth |-> depth - 1]
            ELSE IF kind = "Semicolon" /\ depth = 0
            THEN [place |-> "Statement", depth |-> 0]
            ELSE [place |-> "Rejected", depth |-> depth]

RECURSIVE FirstRejected(_, _, _, _)
\* The index of the first token of ts the grammar does not accept;
\* Len(ts) + 1 when the tokens end inside a statement; 0 when they are a
\* sequence of whole statements.
FirstRejected(ts, i, place, depth) ==
    IF i > Len(ts) THEN (IF place = "Statement" THEN 0 ELSE i)
    ELSE LET next == Accept(place, depth, ts[i].kind)
         IN IF next.place = "Rejected" THEN i
            ELSE FirstRejected(ts, i + 1, next.place, next.depth)

\* The spelling of a token in the source (a Number has many).
Spelling(token) == token_to_string(token)

\* C9: parse has no error recovery: at the first token that does not fit
\* statement := NAME '=' expression ';' it fails with UnexpectedToken
\* located at that token, and when the input ends inside a statement it
\* fails with UnexpectedEOI located at the end of the source; in both cases
\* no statement is returned, whatever well-formed statements came before,
\* and the error is the only one reported.
C9_NoErrorRecovery ==
    last_time = "Some" =>
        LET ts == Tokens
            k == FirstRejected(ts, 1, "Statement", 0)
        IN /\ k \in 1..Len(ts) =>
                /\ statements.tag = "Err"
                /\ statements.statements = <<>>
                /\ statements.error.kind = "UnexpectedToken"
                /\ statements.error.token = ts[k]
                /\ statements.error.location = ts[k].location
                /\ ts[k].kind # "Number" =>
                       Concat(SubSeq(code, ts[k].location.position + 1,
                                     ts[k].location.position
                                         + Len(Spelling(ts[k]))))
                           = Spelling(ts[k])
                /\ errors = <<Where(code, ts[k].location.position)
                              \o ": Unexpected token '" \o Spelling(ts[k])
                              \o "'">>
                /\ variables = ParameterEnv
           /\ (k = Len(ts) + 1 /\ ~LexerFailsFrom(Lexer_new(code))) =>
                /\ statements.tag = "Err"
                /\ statements.statements = <<>>
                /\ statements.error.kind = "UnexpectedEOI"
                /\ statements.error.location
                       = Location(Len(code),
                                  1 + Cardinality({i \in 1..Len(code) :
                                                      code[i] = "\n"}),
                                  IF \E i \in 1..Len(code) : code[i] = "\n"
                                  THEN Len(code) + 1
                                       - Max({i \in 1..Len(code) :
                                                 code[i] = "\n"})
                                  ELSE Len(code) + 1)
                /\ errors = <<location_to_string(statements.error.location)
                              \o ": Unexpected end of input">>
                /\ variables = ParameterEnv

\* After the well-formed line "a = 1;", "a=()" fails at the ')' of line 2.
C9_Witness ==
    /\ code = WellFormedLine \o <<"a", "=", "(", ")">>
    /\ statements.tag = "Err"
    /\ statements.statements = <<>>
    /\ statements.error.kind = "UnexpectedToken"
    /\ errors = <<"2:4: Unexpected token ')'">>

\* C10: the spellings normalize, magnitude, sin, cos, asin, acos are
\* reserved: an identifier spelled exactly so is lexed as its keyword and
\* not as a Name, and as an assignment target or as an operand it makes
\* parse fail with UnexpectedToken at that identifier; every other
\* identifier ("sine", "cos2", ...) is a Name, usable as a target and as an
\* operand.
C10_ReservedSpellings ==
    \A id \in Identifiers, use \in IdentifierUses :
        code = UseText(id, use) =>
            LET first == next_token(Lexer_new(id))
            IN IF id \in ReservedSpellings
               THEN /\ first.token.kind \in Keywords
                    /\ Spelling(first.token) = Concat(id)
                    /\ statements.tag = "Err"
                    /\ statements.error.kind = "UnexpectedToken"
                    /\ statements.error.token.kind = first.token.kind
                    /\ statements.error.location.position
                           = Len(UseBefore(use))
                    /\ errors = <<"1:" \o ToString(Len(UseBefore(use)) + 1)
                                  \o ": Unexpected token '" \o Concat(id)
                                  \o "'">>
                    /\ Concat(id) \notin DOMAIN variables
               ELSE /\ first.token.kind = "Name"
                    /\ first.token.text = Concat(id)
                    /\ Parsed
                    /\ Len(Stmts) = 1
                    /\ use = "target" =>
                           /\ Stmts[1].name = Concat(id)
                           /\ Stmts[1].name_token.kind = "Name"
                           /\ variables[Concat(id)] = Scalar(D(1))
                    /\ use # "target" =>
                           \E node \in NameNodes(Stmts[1].value) :
                               /\ NameNodes(Stmts[1].value) = {node}
                               /\ node.name = Concat(id)
                               /\ node.name_token.kind = "Name"
                               /\ node.name_token.location.position
                                      = Len(UseBefore(use))

\* "sin = 1;" has run: the keyword is rejected as a target.
C10_Witness ==
    /\ code = <<"s", "i", "n", " ", "=", " ", "1", ";">>
    /\ statements.tag = "Err"
    /\ errors = <<"1:1: Unexpected token 'sin'">>
    /\ "sin" \notin DOMAIN variables

(***************************************************************************)
(* The geometric product derived from the metric                           *)
(***************************************************************************)
\* The basis vectors of each blade of Blades, in the same order.
BladeVectors == <<{}, {0}, {1}, {2}, {0, 1}, {0, 2}, {1, 2}, {0, 1, 2}>>

\* The coefficient of a on the blade with basis vectors S.
Coefficient(a, S) ==
    CASE S = {} -> a.s
      [] S = {0} -> a.e0
      [] S = {1} -> a.e1
      [] S = {2} -> a.e2
      [] S = {0, 1} -> a.e01
      [] S = {0, 2} -> a.e02
      [] S = {1, 2} -> a.e12
      [] S = {0, 1, 2} -> a.e012

\* e0 squares to 0, e1 and e2 square to 1.
MetricSquare(i) == IF i = 0 THEN 0 ELSE 1

\* The product of the blades A and B, each written with ascending indices,
\* is sign times the blade of their symmetric difference: every pair
\* (i in A, j in B) with i > j is one exchange of two distinct basis
\* vectors, and every shared vector contracts to its square.
Exchanges(A, B) == Cardinality({p \in A \X B : p[1] > p[2]})
BladeSign(A, B) ==
    (IF Exchanges(A, B) % 2 = 0 THEN 1 ELSE 0 - 1)
    * (IF \E i \in A \cap B : MetricSquare(i) = 0 THEN 0 ELSE 1)
SymmetricDifference(A, B) == (A \ B) \cup (B \ A)

RECURSIVE MetricCoefficient(_, _, _, _, _)
\* The coefficient on the blade C of the bilinear extension: the sum over
\* the blades A of sign(A, B) * a_A * b_B with B the blade completing A to C.
MetricCoefficient(a, b, C, i, acc) ==
    IF i > Len(BladeVectors) THEN acc
    ELSE MetricCoefficient(a, b, C, i + 1,
            DAdd(acc,
                 DMul(D(BladeSign(BladeVectors[i],
                                  SymmetricDifference(BladeVectors[i], C))),
                      DMul(Coefficient(a, BladeVectors[i]),
                           Coefficient(b, SymmetricDifference(BladeVectors[i],
                                                              C))))))

MetricProduct(a, b) ==
    Multivector(MetricCoefficient(a, b, {}, 1, DZero),
                MetricCoefficient(a, b, {0}, 1, DZero),
                MetricCoefficient(a, b, {1}, 1, DZero),
                MetricCoefficient(a, b, {2}, 1, DZero),
                MetricCoefficient(a, b, {0, 1}, 1, DZero),
                MetricCoefficient(a, b, {0, 2}, 1, DZero),
                MetricCoefficient(a, b, {1, 2}, 1, DZero),
                MetricCoefficient(a, b, {0, 1, 2}, 1, DZero))

\* The products the specification writes out: <<left, right, product>>.
WrittenProducts ==
    {<<Basis("e0"), Basis("e0"), ZERO>>,
     <<Basis("e1"), Basis("e1"), Scalar(D(1))>>,
     <<Basis("e2"), Basis("e2"), Scalar(D(1))>>,
     <<Basis("e1"), Basis("e2"), Basis("e12")>>,
     <<Basis("e2"), Basis("e1"), MvNeg(Basis("e12"))>>,
     <<Basis("e0"), Basis("e1"), Basis("e01")>>,
     <<Basis("e1"), Basis("e0"), MvNeg(Basis("e01"))>>,
     <<Basis("e01"), Basis("e2"), Basis("e012")>>,
     <<Basis("e12"), Basis("e12"), Scalar(D(0 - 1))>>}

\* The script ran to its end without an error and left these names bound.
Ran(script, names) ==
    /\ code = script
    /\ errors = <<>>
    /\ names \subseteq DOMAIN variables

(***************************************************************************)
(* C11: the geometric product the evaluator computes for "e1 * e2" is the  *)
(* product derived from the metric e0*e0 = 0, e1*e1 = e2*e2 = 1 with       *)
(* anticommuting distinct basis vectors, for all 64 ordered pairs of basis *)
(* blades (the nine products the specification writes out among them) and  *)
(* for their multiples and mixed sums; and the product is additive and     *)
(* homogeneous in each argument.                                           *)
(***************************************************************************)
C11_GeometricProduct ==
    code = ProductScript =>
        /\ Ran(ProductScript, {"x"})
        /\ variables["x"] = MetricProduct(Operand("e1"), Operand("e2"))
        /\ \A w \in WrittenProducts :
               Operand("e1") = w[1] /\ Operand("e2") = w[2]
                   => variables["x"] = w[3]
        /\ \A c \in MixedValues :
               /\ MvMul(MvAdd(Operand("e1"), Operand("e2")), c)
                     = MvAdd(MvMul(Operand("e1"), c), MvMul(Operand("e2"), c))
               /\ MvMul(c, MvAdd(Operand("e1"), Operand("e2")))
                     = MvAdd(MvMul(c, Operand("e1")), MvMul(c, Operand("e2")))
               /\ MvMul(MvMulF32(Operand("e1"), D(2)), c)
                     = MvMulF32(MvMul(Operand("e1"), c), D(2))
               /\ MvMul(c, MvMulF32(Operand("e2"), D(2)))
                     = MvMulF32(MvMul(c, Operand("e2")), D(2))

\* e12 * e12 was evaluated and gave -1.
C11_Witness ==
    /\ Ran(ProductScript, {"x"})
    /\ Operand("e1") = Basis("e12")
    /\ Operand("e2") = Basis("e12")
    /\ variables["x"] = Scalar(D(0 - 1))

(***************************************************************************)
(* C12: for each value a of the operands e1 and e2, reverse(reverse(a)),   *)
(* dual(dual_inverse(a)) and dual_inverse(dual(a)) are a, component for    *)
(* component; and "x = ~~e1;" binds x to the value of e1.                  *)
(***************************************************************************)
C12_Involutions ==
    /\ \A n \in {"e1", "e2"} :
           /\ reverse(reverse(Operand(n))) = Operand(n)
           /\ dual(dual_inverse(Operand(n))) = Operand(n)
           /\ dual_inverse(dual(Operand(n))) = Operand(n)
    /\ code = ReverseScript =>
           /\ Ran(ReverseScript, {"x"})
           /\ variables["x"] = Operand("e1")

\* A value that its reverse and its dual both change was reversed twice.
C12_Witness ==
    /\ Ran(ReverseScript, {"x"})
    /\ Operand("e1") = Multivector(D(1), D(2), D(3), D(0 - 1),
                                   D(2), D(0 - 3), D(1), D(2))
    /\ variables["x"] = Operand("e1")
    /\ reverse(Operand("e1")) # Operand("e1")
    /\ dual(Operand("e1")) # Operand("e1")
    /\ dual_inverse(Operand("e1")) # Operand("e1")

(***************************************************************************)
(* C13: when e1 holds a grade-1 value (only e0, e1, e2 possibly non-zero), *)
(* "x = e1 ^ e1;" binds x to the zero multivector; when e2 holds a grade-1 *)
(* value too, "y = e1 ^ e2; z = e2 ^ e1;" binds y to -z.                   *)
(***************************************************************************)
C13_WedgeOfVectors ==
    code = WedgeScript =>
        /\ Ran(WedgeScript, {"x", "y", "z"})
        /\ grade1(Operand("e1")) = Operand("e1") => variables["x"] = ZERO
        /\ (/\ grade1(Operand("e1")) = Operand("e1")
            /\ grade1(Operand("e2")) = Operand("e2"))
               => variables["y"] = MvNeg(variables["z"])

\* Two vectors that are not parallel were wedged both ways round.
C13_Witness ==
    /\ Ran(WedgeScript, {"x", "y", "z"})
    /\ Operand("e1") \in MixedVectors
    /\ Operand("e2") \in MixedVectors
    /\ variables["x"] = ZERO
    /\ variables["y"] # ZERO
    /\ variables["y"] = MvNeg(variables["z"])

(***************************************************************************)
(* C14: "x = e1 & e2; y = !(!e1 ^ !e2);" binds x and y to the same value,  *)
(* component for component: the regressive product of the values a and b   *)
(* of e1 and e2 is dual(wedge(dual(a), dual(b))).                          *)
(***************************************************************************)
C14_RegressiveByDuals ==
    code = RegressiveScript =>
        /\ Ran(RegressiveScript, {"x", "y"})
        /\ variables["x"] = variables["y"]
        /\ variables["x"]
              = dual(wedge(dual(Operand("e1")), dual(Operand("e2"))))

\* Two multivectors with every component set met in a non-zero value.
C14_Witness ==
    /\ Ran(RegressiveScript, {"x", "y"})
    /\ Operand("e1") \in MixedValues \ MixedVectors
    /\ Operand("e2") \in MixedValues \ MixedVectors
    /\ Operand("e1") # Operand("e2")
    /\ variables["x"] = variables["y"]
    /\ variables["x"] # ZERO
    /\ dual(variables["x"]) # variables["x"]

RECURSIVE LexersFrom(_)
\* The lexer states that calls of next_token reach from lexer, errors
\* passed over, up to and including the state after the end of input.
LexersFrom(lexer) ==
    IF next_token(lexer).tag = "None"
    THEN {lexer, next_token(lexer).lexer}
    ELSE {lexer} \cup LexersFrom(next_token(lexer).lexer)

\* The lexer states reached on the editor's text.
Lexers == LexersFrom(Lexer_new(code))

\* What a call returns: Ok(Some(token)) | Ok(None) | Err(error).
Returned(r) == [tag |-> r.tag, token |-> r.token, error |-> r.error]

(***************************************************************************)
(* C16: in every lexer state reached on the typed text by next_token calls *)
(* (peek_token calls reach no further state), peek_token leaves the        *)
(* lexer's position, line and column and its place in the characters       *)
(* unchanged, returns what next_token returns from that state, and returns *)
(* it again when repeated.                                                 *)
(***************************************************************************)
C16_PeekDoesNotConsume ==
    \A lexer \in Lexers :
        /\ peek_token(lexer).lexer.location = lexer.location
        /\ peek_token(lexer).lexer = lexer
        /\ Returned(peek_token(lexer)) = Returned(next_token(lexer))
        /\ Returned(peek_token(peek_token(lexer).lexer))
              = Returned(peek_token(lexer))
        /\ Returned(next_token(peek_token(peek_token(lexer).lexer).lexer))
              = Returned(peek_token(lexer))

\* "a\n1.1": a peek in front of the line break returns the number on line 2
\* and leaves the lexer at the end of line 1.
C16_Witness ==
    /\ code = <<"a", "\n", "1", ".", "1">>
    /\ Cardinality(Lexers) = 3
    /\ \E lexer \in Lexers :
           /\ lexer.location = Location(1, 1, 2)
           /\ peek_token(lexer).tag = "Ok"
           /\ peek_token(lexer).token.kind = "Number"
           /\ peek_token(lexer).token.location = Location(2, 2, 1)
           /\ peek_token(lexer).lexer.location = Location(1, 1, 2)
           /\ next_token(lexer).lexer.location = Location(5, 2, 4)

RECURSIVE TokenCount(_, _)
\* The number of tokens next_token returns from lexer before it returns
\* None or an error, counted up to limit.
TokenCount(lexer, limit) ==
    IF limit = 0 \/ next_token(lexer).tag # "Ok" THEN 0
    ELSE 1 + TokenCount(next_token(lexer).lexer, limit - 1)

\* Only whitespace, or nothing, is left in front of the lexer.
OnlyWhitespaceLeft(lexer) ==
    \A k \in lexer.chars.index..Len(lexer.source) :
        is_whitespace(lexer.source[k])

(***************************************************************************)
(* C17: on the typed text next_token returns at most as many tokens as the *)
(* text has characters before it returns None or an error; every token it  *)
(* returns starts at a character of the text and leaves the lexer at least *)
(* one character further; it returns None exactly when only whitespace or  *)
(* nothing is left, and after None every later call returns None.          *)
(***************************************************************************)
C17_FiniteTokenSequence ==
    /\ TokenCount(Lexer_new(code), Len(code) + 1) <= Len(code)
    /\ \A lexer \in Lexers :
           /\ next_token(lexer).tag = "Ok" =>
                  /\ next_token(lexer).lexer.chars.index > lexer.chars.index
                  /\ next_token(lexer).lexer.location.position
                        > lexer.location.position
                  /\ next_token(lexer).token.kind \in TokenKinds
                  /\ next_token(lexer).token.location.position < str_len(code)
           /\ next_token(lexer).tag = "None" <=> OnlyWhitespaceLeft(lexer)
           /\ next_token(lexer).tag = "None" =>
                  /\ next_token(next_token(lexer).lexer).tag = "None"
                  /\ next_token(next_token(next_token(lexer).lexer).lexer).tag
                        = "None"

\* "a=1" and two line breaks: three tokens, then None with the line breaks
\* still in front of the lexer.
C17_Witness ==
    /\ code = <<"a", "=", "1", "\n", "\n">>
    /\ TokenCount(Lexer_new(code), Len(code) + 1) = 3
    /\ \E lexer \in Lexers :
           /\ lexer.chars.index = 4
           /\ next_token(lexer).tag = "None"
           /\ next_token(lexer).lexer.location = Location(5, 3, 1)

RECURSIVE SkipWhitespace(_, _)
\* The index of the first character of text at or after k that is not
\* whitespace, or Len(text) + 1.
SkipWhitespace(text, k) ==
    IF k <= Len(text) /\ is_whitespace(text[k])
    THEN SkipWhitespace(text, k + 1)
    ELSE k

\* The characters of the token, or of the failed run, that next_token
\* takes from lexer.
TakenBy(lexer) ==
    SubSeq(lexer.source, SkipWhitespace(lexer.source, lexer.chars.index),
           next_token(lexer).lexer.chars.index - 1)

\* [0-9]+(\.[0-9]+)?
LiteralSyntax(run) ==
    \E n \in 1..Len(run) :
        /\ \A k \in 1..n : run[k] \in AsciiDigit
        /\ \/ n = Len(run)
           \/ /\ n + 2 <= Len(run)
              /\ run[n + 1] = "."
              /\ \A k \in (n + 2)..Len(run) : run[k] \in AsciiDigit

(***************************************************************************)
(* C18: every Number token the lexer returns on the typed text is taken    *)
(* from characters of the form [0-9]+(\.[0-9]+)?; digits followed by a     *)
(* '.' and nothing more, as in "1.", are not returned as a Number.         *)
(***************************************************************************)
C18_NumberLiteralSyntax ==
    \A lexer \in Lexers :
        (next_token(lexer).tag = "Ok"
         /\ next_token(lexer).token.kind = "Number")
            => LiteralSyntax(TakenBy(lexer))

RECURSIVE RunEnd(_, _)
\* The index of the last character of the maximal run of numeric
\* characters and '.' that holds the character at k.
RunEnd(text, k) ==
    IF k + 1 <= Len(text) /\ (is_numeric(text[k + 1]) \/ text[k + 1] = ".")
    THEN RunEnd(text, k + 1)
    ELSE k

\* A decimal float: ASCII digits with at most one '.', after a first digit.
ValidFloat(run) ==
    /\ \A k \in 1..Len(run) : run[k] \in AsciiDigit \cup {"."}
    /\ Cardinality({k \in 1..Len(run) : run[k] = "."}) <= 1

\* The location of the character at index k of text, counted from the text.
LocationOf(text, k) ==
    Location(str_len(SubSeq(text, 1, k - 1)),
             LineAt(text, k - 1), ColumnAt(text, k - 1))

RECURSIVE FirstStop(_)
\* The lexer state in which next_token first returns None or an error.
FirstStop(lexer) ==
    IF next_token(lexer).tag = "Ok" THEN FirstStop(next_token(lexer).lexer)
    ELSE lexer

\* The kinds of the tokens in front of the first None or error.
KindsBeforeFirstStop == [i \in 1..Len(Tokens) |-> Tokens[i].kind]

(***************************************************************************)
(* C19: wherever the lexer meets a digit at the start of a token, it takes *)
(* the maximal run of numeric characters and '.' from there as one unit;   *)
(* a run that is a decimal float is returned as a Number, and any other    *)
(* run (two or more '.', as in "1.2.3" and "1..2", among them) is          *)
(* InvalidNumber located at the first character of the run.  A parse that  *)
(* fails with InvalidNumber reports the location of the first such run,    *)
(* and the parse does fail so when the run is the first token or follows   *)
(* a name, a name and '=', or a name, '=' and a number.                    *)
(***************************************************************************)
C19_InvalidNumberAtRunStart ==
    /\ \A lexer \in Lexers :
           (/\ SkipWhitespace(code, lexer.chars.index) <= Len(code)
            /\ code[SkipWhitespace(code, lexer.chars.index)] \in AsciiDigit)
           => /\ next_token(lexer).lexer.chars.index
                    = RunEnd(code, SkipWhitespace(code, lexer.chars.index)) + 1
              /\ IF ValidFloat(TakenBy(lexer))
                 THEN /\ next_token(lexer).tag = "Ok"
                      /\ next_token(lexer).token.kind = "Number"
                 ELSE /\ next_token(lexer).tag = "Err"
                      /\ next_token(lexer).error.kind = "InvalidNumber"
                      /\ next_token(lexer).error.location
                            = LocationOf(code,
                                  SkipWhitespace(code, lexer.chars.index))
    /\ (/\ next_token(FirstStop(Lexer_new(code))).tag = "Err"
        /\ next_token(FirstStop(Lexer_new(code))).error.kind = "InvalidNumber")
       => /\ KindsBeforeFirstStop \in {<<>>, <<"Name">>, <<"Name", "Equal">>,
                                       <<"Name", "Equal", "Number">>}
              => /\ statements.tag = "Err"
                 /\ statements.error.kind = "LexerError"
                 /\ statements.error.lexer_kind = "InvalidNumber"
          /\ (/\ statements.tag = "Err"
              /\ statements.error.kind = "LexerError")
             => /\ statements.error.lexer_kind = "InvalidNumber"
                /\ statements.error.location
                      = LocationOf(code,
                            SkipWhitespace(code,
                                FirstStop(Lexer_new(code)).chars.index))
                /\ errors
                      = <<location_to_string(statements.error.location)
                          \o ": Invalid number">>
                /\ variables = ParameterEnv

\* "1.1.1" fails at 1:1, not at the second '.' in column 4.
C19_Witness ==
    /\ code = <<"1", ".", "1", ".", "1">>
    /\ next_token(Lexer_new(code)).tag = "Err"
    /\ next_token(Lexer_new(code)).error.location = Location(0, 1, 1)
    /\ next_token(Lexer_new(code)).lexer.chars.index = 6
    /\ errors = <<"1:1: Invalid number">>

\* The step runs update_code: it is the first frame, or the code changed,
\* or the parameters changed otherwise than by a Normalise button.
PassRuns ==
    \/ last_time = "None"
    \/ code' # code
    \/ (parameters' # parameters /\ ~ClickNormalise)

\* The names the statements of a pass assign.
AssignedNames(parsed) ==
    {parsed.statements[i].name : i \in 1..Len(parsed.statements)}

(***************************************************************************)
(* C20: every step that runs a pass leaves the environment and the error   *)
(* list that the script yields from the current parameters alone, whatever *)
(* the earlier passes bound: every name bound is a parameter's name or a   *)
(* target of the script as it now is, and every parameter's name the       *)
(* script does not assign is bound to the parameter's value.  A step that  *)
(* changes the script changes no parameter, also when the script assigns   *)
(* to a parameter's name.                                                  *)
(***************************************************************************)
C20_FreshEnvironmentEachPass ==
    [][PassRuns =>
         /\ variables' =
               evaluation(code', insert_parameters(parameters', 1, EmptyMap))
                   .variables
         /\ errors' =
               evaluation(code', insert_parameters(parameters', 1, EmptyMap))
                   .errors
         /\ DOMAIN variables' \subseteq
               {parameters'[i].name : i \in 1..Len(parameters')}
               \cup AssignedNames(statements')
         /\ \A i \in 1..Len(parameters') :
               parameters'[i].name \notin AssignedNames(statements')
                   => /\ parameters'[i].name \in DOMAIN variables'
                      /\ variables'[parameters'[i].name] = parameters'[i].value
         /\ code' # code => parameters' = parameters]_vars

\* e1 was edited to 2 e1 and the script assigns 2 to e1: the environment
\* holds the scalar, the parameter keeps its value; a is unbound, whatever
\* the passes before the editor was cleared had bound.
C20_Witness ==
    /\ code = <<"e", "1", " ", "=", " ", "2", ";", "b", " ", "=", " ", "a", ";">>
    /\ Operand("e1") = MvMulF32(Basis("e1"), D(2))
    /\ variables["e1"] = Scalar(D(2))
    /\ "a" \notin DOMAIN variables
    /\ "b" \notin DOMAIN variables
    /\ errors = <<"1:12: Unknown variable 'a'">>


(***************************************************************************)
(* C21: in every lexer state reached on the typed text, a token returned   *)
(* by next_token is located at its first character, the first character    *)
(* at or after the lexer's place that is not whitespace: position is the   *)
(* number of bytes in front of that character, line is 1 plus the number   *)
(* of line breaks in front of it, and column is 1 plus the number of       *)
(* characters between it and the last line break in front of it (or the    *)
(* start of the text).                                                     *)
(***************************************************************************)
C21_TokenLocation ==
    \A lexer \in Lexers :
        next_token(lexer).tag = "Ok" =>
            LET k == SkipWhitespace(code, lexer.chars.index)
                breaks == {i \in 1..(k - 1) : code[i] = "\n"}
                location == next_token(lexer).token.location
            IN /\ k <= Len(code)
               /\ location.position = str_len(SubSeq(code, 1, k - 1))
               /\ location.line = 1 + Cardinality(breaks)
               /\ location.column = k - Max(breaks \cup {0})

\* "é \n =": the '=' is the second token, on line 2 after a space; four
\* characters and five bytes are in front of it.
C21_Witness ==
    /\ code = <<"é", " ", "\n", " ", "=">>
    /\ \E lexer \in Lexers :
          /\ lexer.chars.index = 2
          /\ next_token(lexer).tag = "Ok"
          /\ next_token(lexer).token.kind = "Equal"
          /\ next_token(lexer).token.location = Location(5, 2, 2)


\* The part of a on the blades of g basis vectors; zero when there is none.
KeptCoefficient(a, S, g) ==
    IF Cardinality(S) = g THEN Coefficient(a, S) ELSE DZero
GradePart(a, g) ==
    Multivector(KeptCoefficient(a, {}, g), KeptCoefficient(a, {0}, g),
                KeptCoefficient(a, {1}, g), KeptCoefficient(a, {2}, g),
                KeptCoefficient(a, {0, 1}, g), KeptCoefficient(a, {0, 2}, g),
                KeptCoefficient(a, {1, 2}, g), KeptCoefficient(a, {0, 1, 2}, g))

\* a is of pure grade g: it has no component on a blade of another grade.
PureGrade(a, g) == GradePart(a, g) = a

RECURSIVE GradePairSum(_, _, _, _, _)
\* The sum over the 16 pairs (j, k) of grades, pair i being (i \div 4, i % 4),
\* of one grade of the metric product of the grade-j part of a and the
\* grade-k part of b: grade j + k when raising, grade |j - k| otherwise.
GradePairSum(a, b, raising, i, acc) ==
    IF i > 15 THEN acc
    ELSE GradePairSum(a, b, raising, i + 1,
            MvAdd(acc,
                  GradePart(MetricProduct(GradePart(a, i \div 4),
                                          GradePart(b, i % 4)),
                            IF raising THEN (i \div 4) + (i % 4)
                            ELSE IF (i \div 4) >= (i % 4)
                                 THEN (i \div 4) - (i % 4)
                                 ELSE (i % 4) - (i \div 4))))

(***************************************************************************)
(* C22: "y = e1 ^ e2;" binds y to the wedge of the values a of e1 and b of *)
(* e2, and whenever a is of pure grade j and b of pure grade k that value  *)
(* is the grade-(j+k) part of the geometric product a*b, the zero          *)
(* multivector when j+k > 3; whatever a and b are, it is the sum over the  *)
(* 16 pairs (j, k) of the grade-(j+k) part of the product of a's grade-j   *)
(* part and b's grade-k part.                                              *)
(***************************************************************************)
C22_WedgeRaisesGrades ==
    code = WedgeScript =>
        /\ Ran(WedgeScript, {"y"})
        /\ \A j \in 0..3, k \in 0..3 :
               PureGrade(Operand("e1"), j) /\ PureGrade(Operand("e2"), k) =>
                   /\ variables["y"]
                         = GradePart(MvMul(Operand("e1"), Operand("e2")), j + k)
                   /\ j + k > 3 => variables["y"] = ZERO
        /\ variables["y"]
              = GradePairSum(Operand("e1"), Operand("e2"), TRUE, 0, ZERO)

\* A vector with every component set was wedged with a bivector with every
\* component set: the product has a grade-1 part, the wedge is its grade-3
\* part alone.
C22_Witness ==
    /\ Ran(WedgeScript, {"y"})
    /\ Operand("e1") \in MixedVectors
    /\ Operand("e2") \in MixedBivectors
    /\ variables["y"] # ZERO
    /\ variables["y"] # MvMul(Operand("e1"), Operand("e2"))
    /\ PureGrade(variables["y"], 3)


(***************************************************************************)
(* C23: "x = e1 | e2;" binds x to the inner product of the values a of e1  *)
(* and b of e2, and whenever a is of pure grade j and b of pure grade k    *)
(* that value is the grade-|j-k| part of the geometric product a*b: for    *)
(* two scalars the scalar a.s * b.s, for two grade-1 vectors the scalar    *)
(* a.e1 * b.e1 + a.e2 * b.e2, in which e0 has no part; whatever a and b    *)
(* are, it is the sum over the 16 pairs (j, k) of the grade-|j-k| part of  *)
(* the product of a's grade-j part and b's grade-k part.                   *)
(***************************************************************************)
C23_InnerLowersGrades ==
    code = InnerScript =>
        /\ Ran(InnerScript, {"x"})
        /\ \A j \in 0..3, k \in 0..3 :
               PureGrade(Operand("e1"), j) /\ PureGrade(Operand("e2"), k) =>
                   variables["x"]
                       = GradePart(MvMul(Operand("e1"), Operand("e2")),
                                   IF j >= k THEN j - k ELSE k - j)
        /\ PureGrade(Operand("e1"), 0) /\ PureGrade(Operand("e2"), 0) =>
               variables["x"] = Scalar(DMul(Operand("e1").s, Operand("e2").s))
        /\ PureGrade(Operand("e1"), 1) /\ PureGrade(Operand("e2"), 1) =>
               variables["x"]
                   = Scalar(DAdd(DMul(Operand("e1").e1, Operand("e2").e1),
                                 DMul(Operand("e1").e2, Operand("e2").e2)))
        /\ variables["x"]
              = GradePairSum(Operand("e1"), Operand("e2"), FALSE, 0, ZERO)

\* Two vectors with every component set, e0 among them, met in the scalar
\* 2 * (-1) + (-3) * 2 = -8 or its opposite.
C23_Witness ==
    /\ Ran(InnerScript, {"x"})
    /\ Operand("e1") \in MixedVectors
    /\ Operand("e2")
          \in {MvMulF32(v, D(k)) : v \in MixedVectors, k \in {0 - 1, 1}}
    /\ Operand("e1").e0 # DZero
    /\ Operand("e2").e0 # DZero
    /\ variables["x"] \in {Scalar(D(0 - 8)), Scalar(D(8))}


(***************************************************************************)
(* C24: "x = !e1;" binds x to the dual of the value a of e1, which has     *)
(* a.e012 on s and a.s on e012, a.e12 on e0 and a.e0 on e12, -a.e02 on e1  *)
(* and -a.e1 on e02, a.e01 on e2 and a.e2 on e01; for every k in 0..3 the  *)
(* grade-(3-k) part of the dual is the dual of the grade-k part of a; and  *)
(* dual_inverse gives for every edited value what dual gives.              *)
(***************************************************************************)
C24_DualSignTable ==
    /\ \A n \in {"e1", "e2"} : dual_inverse(Operand(n)) = dual(Operand(n))
    /\ code = DualScript =>
           /\ Ran(DualScript, {"x"})
           /\ variables["x"].s = Operand("e1").e012
           /\ variables["x"].e012 = Operand("e1").s
           /\ variables["x"].e0 = Operand("e1").e12
           /\ variables["x"].e12 = Operand("e1").e0
           /\ variables["x"].e1 = DNeg(Operand("e1").e02)
           /\ variables["x"].e02 = DNeg(Operand("e1").e1)
           /\ variables["x"].e2 = Operand("e1").e01
           /\ variables["x"].e01 = Operand("e1").e2
           /\ \A k \in 0..3 :
                  GradePart(variables["x"], 3 - k)
                      = dual(GradePart(Operand("e1"), k))

\* The dual of a multivector with every component set, no two alike up to
\* sign within a grade, was taken.
C24_Witness ==
    /\ Ran(DualScript, {"x"})
    /\ Operand("e1")
          = Multivector(D(1), D(2), D(3), D(0 - 1), D(2), D(0 - 3), D(1), D(2))
    /\ variables["x"]
          = Multivector(D(2), D(1), D(3), D(2), D(0 - 1), D(0 - 3), D(2), D(1))


\* The index of the group's opening parenthesis in the editor's text.
GroupOpen == CHOOSE i \in 1..Len(code) : code[i] = "("
\* What stands between "x = " and the group, and what follows the '('.
GroupLeft == SubSeq(code, 5, GroupOpen - 1)
AfterOpen == SubSeq(code, GroupOpen + 1, Len(code))

\* The ways the text after '(' reads as e, closing, right and end.
GroupReadings ==
    {g \in [c : Closings, r : Rights, end : Ends] :
        /\ \E i \in 1..Len(code) : code[i] = "("
        /\ Len(g.c \o g.r \o g.end) < Len(AfterOpen)
        /\ SubSeq(AfterOpen, Len(AfterOpen) - Len(g.c \o g.r \o g.end) + 1,
                  Len(AfterOpen)) = g.c \o g.r \o g.end
        /\ SubSeq(AfterOpen, 1, Len(AfterOpen) - Len(g.c \o g.r \o g.end))
              \in Inners}
GroupInner(g) ==
    SubSeq(AfterOpen, 1, Len(AfterOpen) - Len(g.c \o g.r \o g.end))

\* The expression of the one statement of "x = <text>;".
ExpressionOf(text) ==
    parse(<<"x", " ", "=", " ">> \o text \o <<";">>).statements[1].value

RECURSIVE Substitute(_, _, _)
\* shape with every Name node called name replaced by replacement.
Substitute(shape, name, replacement) ==
    IF shape.kind = "Name" /\ shape.name = name THEN replacement
    ELSE [shape EXCEPT
            !.children = [i \in 1..Len(shape.children) |->
                             Substitute(shape.children[i], name, replacement)]]

\* The number the group's inner expression e comes to on its own.
InnerNumber(e) == evaluate_value(ExpressionOf(e), ParameterEnv).value.s

\* The number "l (e) r" comes to, e coming to v: "1 - (e) * 3" multiplies
\* first; every other pair of l and r applies l first.
LeftApplied(l, v) ==
    CASE l = <<>> -> v
      [] l = <<"1", " ", "-", " ">> -> DSub(D(1), v)
      [] l = <<"2", " ", "*", " ">> -> DMul(D(2), v)
RightApplied(r, v) ==
    CASE r = <<>> -> v
      [] r = <<" ", "*", " ", "3">> -> DMul(v, D(3))
      [] r = <<" ", "-", " ", "1">> -> DSub(v, D(1))
GroupNumber(l, r, v) ==
    IF l = <<"1", " ", "-", " ">> /\ r = <<" ", "*", " ", "3">>
    THEN LeftApplied(l, RightApplied(r, v))
    ELSE RightApplied(r, LeftApplied(l, v))

(***************************************************************************)
(* C25: in "x = l (e) r;" the group stands as one primary: the statement's *)
(* expression is that of "x = l g r;" with the expression of e, and no     *)
(* other node, in the place of the name g, and x is bound to the number    *)
(* that l and r give applied to the number e comes to ("(1 + 2) * 3" to 9, *)
(* "1 - (2 - 3)" to 2).  With something other than ')' after the group's   *)
(* expression the one error is "Unexpected token" naming the token found   *)
(* there, at that token's line and column, or "Unexpected end of input"    *)
(* when the text ends there.                                               *)
(***************************************************************************)
C25_ParenthesizedPrimary ==
    /\ \A g \in GroupReadings :
          /\ g.c = <<")">> /\ g.end = <<";">> =>
                /\ Parsed /\ Len(Stmts) = 1 /\ errors = <<>>
                /\ ShapeOf(Stmts[1].value)
                      = Substitute(
                            ShapeOf(ExpressionOf(GroupLeft \o <<"g">> \o g.r)),
                            "g", ShapeOf(ExpressionOf(GroupInner(g))))
                /\ variables["x"]
                      = Scalar(GroupNumber(GroupLeft, g.r,
                                           InnerNumber(GroupInner(g))))
          /\ g.c = <<" ", "1">> =>
                errors = <<"1:"
                           \o ToString(GroupOpen + Len(GroupInner(g)) + 2)
                           \o ": Unexpected token '1'">>
          /\ g.c = <<>> /\ g.end = <<";">> =>
                errors = <<"1:" \o ToString(Len(code))
                                \o ": Unexpected token ';'">>
          /\ g.c = <<>> /\ g.end = <<>> =>
                errors = <<"1:" \o ToString(Len(code) + 1)
                                \o ": Unexpected end of input">>
    /\ code = <<"x", " ", "=", " ", "(", "1", " ", "+", " ", "2", ")",
                " ", "*", " ", "3", ";">>
          => errors = <<>> /\ variables["x"] = Scalar(D(9))
    /\ code = <<"x", " ", "=", " ", "1", " ", "-", " ", "(", "2", " ", "-",
                " ", "3", ")", ";">>
          => errors = <<>> /\ variables["x"] = Scalar(D(2))

\* "x = 1 - (2 - 3);" was typed and x is 2; without the parentheses the
\* text comes to -4.
C25_Witness ==
    /\ code = <<"x", " ", "=", " ", "1", " ", "-", " ", "(", "2", " ", "-",
                " ", "3", ")", ";">>
    /\ GroupReadings # {}
    /\ variables["x"] = Scalar(D(2))
    /\ InnerNumber(<<"1", " ", "-", " ", "2", " ", "-", " ", "3">>)
          = D(0 - 4)


\* The characters of [A-Za-z_] and of [A-Za-z0-9_].
IdentifierStart == AsciiLower \cup AsciiUpper \cup {"_"}
IdentifierContinue == IdentifierStart \cup AsciiDigit

(***************************************************************************)
(* C26: in every lexer state reached on the typed text, a Name token is    *)
(* spelled [A-Za-z_][A-Za-z0-9_]*, and a first character that is no ASCII  *)
(* letter, '_', ASCII digit, whitespace or symbol gives the error          *)
(* UnexpectedChar located at that character.                               *)
(***************************************************************************)
C26_NameSyntax ==
    \A lexer \in Lexers :
        /\ (/\ next_token(lexer).tag = "Ok"
            /\ next_token(lexer).token.kind = "Name")
           => /\ TakenBy(lexer)[1] \in IdentifierStart
              /\ \A i \in 2..Len(TakenBy(lexer)) :
                     TakenBy(lexer)[i] \in IdentifierContinue
        /\ (/\ SkipWhitespace(code, lexer.chars.index) <= Len(code)
            /\ code[SkipWhitespace(code, lexer.chars.index)]
                  \notin IdentifierContinue \cup Symbols)
           => /\ next_token(lexer).tag = "Err"
              /\ next_token(lexer).error.kind = "UnexpectedChar"
              /\ next_token(lexer).error.location
                    = LocationOf(code, SkipWhitespace(code, lexer.chars.index))


\* The number of tokens of ts that start in front of the byte at position.
StartingBefore(ts, position) ==
    Cardinality({i \in 1..Len(ts) : ts[i].location.position < position})

(***************************************************************************)
(* C27: when parse fails, every token that starts in front of the reported *)
(* location is accepted by the grammar, and nothing in front of it fails   *)
(* to lex.  If the grammar rejects a token that the lexer reaches, the     *)
(* error is UnexpectedToken at the first such token, whatever fails to lex *)
(* after it; otherwise, if the lexer fails, the error is the lexer's, of   *)
(* its kind and at its place, also when the parser meets it while peeking  *)
(* after an operand or after a statement; otherwise it is UnexpectedEOI.   *)
(* parse succeeds only if neither the lexer nor the grammar rejects.       *)
(***************************************************************************)
C27_EarliestError ==
    last_time = "Some" =>
        LET ts == Tokens
            k == FirstRejected(ts, 1, "Statement", 0)
            stop == next_token(FirstStop(Lexer_new(code)))
        IN /\ statements.tag = "Err" =>
                /\ StartingBefore(ts, statements.error.location.position)
                      \in {Len(ts), k - 1}
                /\ k \in 1..Len(ts) =>
                      StartingBefore(ts, statements.error.location.position)
                          = k - 1
                /\ FirstRejected(
                       SubSeq(ts, 1,
                              StartingBefore(ts,
                                  statements.error.location.position)),
                       1, "Statement", 0)
                      \in {0, StartingBefore(ts,
                                  statements.error.location.position) + 1}
                /\ k \in 1..Len(ts) =>
                      /\ statements.error.kind = "UnexpectedToken"
                      /\ statements.error.token = ts[k]
                /\ (k \notin 1..Len(ts) /\ stop.tag = "Err") =>
                      /\ statements.error.kind = "LexerError"
                      /\ statements.error.lexer_kind = stop.error.kind
                      /\ statements.error.location = stop.error.location
                      /\ statements.error.location
                            = LocationOf(code,
                                  SkipWhitespace(code,
                                      FirstStop(Lexer_new(code)).chars.index))
                /\ (k \notin 1..Len(ts) /\ stop.tag = "None") =>
                      statements.error.kind = "UnexpectedEOI"
           /\ statements.tag = "Ok" => k = 0 /\ stop.tag = "None"
           /\ (k = 0 /\ stop.tag = "None") => statements.tag = "Ok"

\* "a = 1;" and, on line 2, "=$": the '=' is rejected in front of the
\* character that does not lex.
C27_Witness ==
    /\ code = WellFormedLine \o <<"=", "$">>
    /\ LexerFailsFrom(Lexer_new(code))
    /\ statements.tag = "Err"
    /\ statements.error.kind = "UnexpectedToken"
    /\ errors = <<"2:1: Unexpected token '='">>


\* a has no component other than e0, e01, e02 and e012.
NullOnly(a) ==
    a.s = DZero /\ a.e1 = DZero /\ a.e2 = DZero /\ a.e12 = DZero

\* Multivectors on e0, e01, e02 and e012 alone, to add to a value.
NullParts ==
    {Multivector(D(0), D(1), D(0), D(0), D(0), D(0), D(0), D(0)),
     Multivector(D(0), D(0), D(0), D(0), D(0 - 2), D(0), D(0), D(0)),
     Multivector(D(0), D(0), D(0), D(0), D(0), D(3), D(0), D(0)),
     Multivector(D(0), D(0), D(0), D(0), D(0), D(0), D(0), D(0 - 1)),
     Multivector(D(0), D(5), D(0), D(0), D(1), D(0 - 4), D(0), D(2))}

(***************************************************************************)
(* C28: for the value a of every parameter, sqr_magnitude(a) is            *)
(* a.s^2 + a.e1^2 + a.e2^2 + a.e12^2, is not negative, and is the same     *)
(* after anything is added on e0, e01, e02 and e012; when a has no other   *)
(* component than these four, magnitude(a) is 0 and normalised(a) is a.    *)
(***************************************************************************)
C28_SqrMagnitude ==
    \A i \in 1..Len(parameters) :
        /\ sqr_magnitude(parameters[i].value)
              = Sum4(DMul(parameters[i].value.s, parameters[i].value.s),
                     DMul(parameters[i].value.e1, parameters[i].value.e1),
                     DMul(parameters[i].value.e2, parameters[i].value.e2),
                     DMul(parameters[i].value.e12, parameters[i].value.e12))
        /\ DGe(sqr_magnitude(parameters[i].value), DZero)
        /\ \A n \in NullParts :
               sqr_magnitude(MvAdd(parameters[i].value, n))
                   = sqr_magnitude(parameters[i].value)
        /\ NullOnly(parameters[i].value) =>
               /\ magnitude(parameters[i].value) = DZero
               /\ normalised(parameters[i].value) = parameters[i].value

\* e1 holds 4 e01 + 4 e012, which is not zero and of magnitude 0, and e2
\* holds a value with all four counted components set, of magnitude 5.
C28_Witness ==
    /\ Operand("e1") = Multivector(D(0), D(0), D(0), D(0), D(4), D(0), D(0),
                                   D(4))
    /\ NullOnly(Operand("e1"))
    /\ normalised(Operand("e1")) = Operand("e1")
    /\ Operand("e2") = Multivector(D(3), D(2), D(0), D(0), D(0), D(1), D(4),
                                   D(1))
    /\ sqr_magnitude(Operand("e2")) = D(25)


(***************************************************************************)
(* C29: when statement i of the pass is reached and fails to evaluate, the *)
(* environment after the pass is the one statement i was evaluated in:     *)
(* every name assigned by statements 1..i-1 is bound to the value of its   *)
(* last assignment among them, every other parameter to its own value, and *)
(* the error of statement i is the one error reported.                     *)
(***************************************************************************)
C29_NoRollback ==
    Parsed =>
        \A i \in 1..Len(Stmts) :
            (Reached(i) /\ ResultOf(i).tag = "Err") =>
                /\ errors = <<ResultOf(i).error>>
                /\ \A j \in 1..(i - 1) :
                       /\ Stmts[j].name \in DOMAIN variables
                       /\ variables[Stmts[j].name]
                             = ResultOf(Max(AssignmentsTo(Stmts[j].name,
                                                          i - 1))).value
                /\ variables = EnvBefore(i)

\* "a = 2;e0 = 2;a = b;": the third statement fails on the unknown b; a is
\* 2 and e0 is the scalar 2, not the parameter's value.
C29_Witness ==
    /\ code = <<"a", " ", "=", " ", "2", ";",
                "e", "0", " ", "=", " ", "2", ";",
                "a", " ", "=", " ", "b", ";">>
    /\ errors = <<"1:18: Unknown variable 'b'">>
    /\ variables["a"] = Scalar(D(2))
    /\ variables["e0"] = Scalar(D(2))
    /\ ParameterEnv["e0"] # Scalar(D(2))


RECURSIVE ErrorsInOrder(_, _)
\* The errors the nodes of expression can raise in env, in the order left
\* operand, right operand, operator: an unknown name at the name, a
\* division at its '/'.
ErrorsInOrder(expression, env) ==
    CASE expression.kind = "Name" ->
            IF expression.name \in DOMAIN env THEN <<>>
            ELSE <<Where(code, expression.name_token.location.position)
                   \o ": Unknown variable '" \o expression.name \o "'">>
      [] expression.kind = "Number" -> <<>>
      [] expression.kind = "Unary" -> ErrorsInOrder(expression.operand, env)
      [] expression.kind = "Binary" ->
            ErrorsInOrder(expression.left, env)
            \o ErrorsInOrder(expression.right, env)
            \o (IF expression.operator = "Divide"
                THEN <<Where(code, expression.operator_token.location.position)
                       \o ": Divide unimplemented">>
                ELSE <<>>)

(***************************************************************************)
(* C30: the pass over one assignment reports at most one error, the first  *)
(* of the errors its expression can raise in the order left operand, right *)
(* operand, operator at every Binary node: the error of the left operand   *)
(* if that fails, else that of the right operand, and the operator's own   *)
(* only when both operands succeed; x is bound only when there is none.    *)
(***************************************************************************)
C30_FirstErrorOnly ==
    (Parsed /\ Len(Stmts) = 1) =>
        /\ Len(errors) <= 1
        /\ ErrorsInOrder(Stmts[1].value, ParameterEnv) = <<>> =>
              errors = <<>> /\ "x" \in DOMAIN variables
        /\ ErrorsInOrder(Stmts[1].value, ParameterEnv) # <<>> =>
              /\ errors = <<ErrorsInOrder(Stmts[1].value, ParameterEnv)[1]>>
              /\ "x" \notin DOMAIN variables

\* "x = u + -v / 1;": the left operand u fails, and so would the right
\* one, on v and on its division; the error is u's alone.
C30_Witness ==
    /\ code = <<"x", " ", "=", " ", "u", " ", "+", " ", "-", "v", " ", "/",
                " ", "1", ";">>
    /\ Parsed
    /\ Len(ErrorsInOrder(Stmts[1].value, ParameterEnv)) = 3
    /\ errors = <<"1:5: Unknown variable 'u'">>

====
